---------------------------- MODULE Spec2Model ----------------------------
(***************************************************************************)
(* cpusage: usage and cost analysis of Copilot session-state logs and      *)
(* usage logs.  The model follows the analyzer with usage-log support      *)
(* (src/unnamed/part_001); the older snapshot src/src/app.ts is referred   *)
(* to where the two differ.                                                *)
(*                                                                         *)
(* Conventions.                                                            *)
(*  - Strings are TLA+ strings; characters are one-character strings       *)
(*    obtained with SubSeq(s, i, i).                                       *)
(*  - A Date is a record [y, m, d, h] of local calendar fields, m in       *)
(*    1..12 (JavaScript's getMonth() is m - 1).  Minutes and below never   *)
(*    reach a bucket key and are dropped.  The local time zone is taken    *)
(*    to have no daylight-saving shifts.                                   *)
(*  - Money is exact: a rate is in cents per million tokens, a cost is     *)
(*    tokens * rate, i.e. in units of 10^-8 USD.                           *)
(*  - A JavaScript Map or object is a sequence of records in insertion     *)
(*    order, keys distinct.                                                *)
(***************************************************************************)
EXTENDS Integers, Sequences, FiniteSets, TLC

\* null for a string-valued field
NULL == "<null>"
\* null for a Date-valued field
NoDate == [y |-> 0, m |-> 0, d |-> 0, h |-> 0]
\* the limit when none applies
Infinity == -1
\* the rate read from a value that is no Pricing, and the cost computed from it;
\* no sum of products of tokens and rates comes near it
Undefined == 0 - 1000000000
NaN == 0 - 2000000000

(***************************************************************************)
(* Characters and strings                                                  *)
(***************************************************************************)
CharAt(s, i) == SubSeq(s, i, i)

UpperChars == <<"A","B","C","D","E","F","G","H","I","J","K","L","M",
                "N","O","P","Q","R","S","T","U","V","W","X","Y","Z">>
LowerChars == <<"a","b","c","d","e","f","g","h","i","j","k","l","m",
                "n","o","p","q","r","s","t","u","v","w","x","y","z">>
DigitChars == <<"0","1","2","3","4","5","6","7","8","9">>

SeqToSet(q) == { q[i] : i \in 1..Len(q) }

IsSpace(c) == c \in {" ", "\t", "\n", "\r"}

LowerOf(c) ==
    IF \E i \in 1..26 : UpperChars[i] = c
    THEN LowerChars[CHOOSE i \in 1..26 : UpperChars[i] = c]
    ELSE c

\* String.prototype.includes
Includes(s, k) ==
    \E i \in 1..(Len(s) - Len(k) + 1) : SubSeq(s, i, i + Len(k) - 1) = k

RECURSIVE TrimStart(_)
TrimStart(s) ==
    IF Len(s) > 0 /\ IsSpace(CharAt(s, 1))
    THEN TrimStart(SubSeq(s, 2, Len(s)))
    ELSE s

RECURSIVE TrimEnd(_)
TrimEnd(s) ==
    IF Len(s) > 0 /\ IsSpace(CharAt(s, Len(s)))
    THEN TrimEnd(SubSeq(s, 1, Len(s) - 1))
    ELSE s

Trim(s) == TrimEnd(TrimStart(s))

RECURSIVE ToLowerCase(_)
ToLowerCase(s) ==
    IF Len(s) = 0 THEN ""
    ELSE LowerOf(CharAt(s, 1)) \o ToLowerCase(SubSeq(s, 2, Len(s)))

\* s.replace(/\s+/g, '-'): every maximal run of white space becomes one hyphen
RECURSIVE ReplaceSpaceRuns(_)
ReplaceSpaceRuns(s) ==
    IF Len(s) = 0 THEN ""
    ELSE IF IsSpace(CharAt(s, 1))
         THEN "-" \o ReplaceSpaceRuns(TrimStart(s))
         ELSE CharAt(s, 1) \o ReplaceSpaceRuns(SubSeq(s, 2, Len(s)))

\* s.replace(/_/g, '-')
RECURSIVE ReplaceUnderscores(_)
ReplaceUnderscores(s) ==
    IF Len(s) = 0 THEN ""
    ELSE (IF CharAt(s, 1) = "_" THEN "-" ELSE CharAt(s, 1))
         \o ReplaceUnderscores(SubSeq(s, 2, Len(s)))

IsModelChar(c) ==
    c \in SeqToSet(LowerChars) \cup SeqToSet(DigitChars) \cup {".", "-"}

\* s.replace(/[^a-z0-9.-]/g, '')
RECURSIVE StripOtherChars(_)
StripOtherChars(s) ==
    IF Len(s) = 0 THEN ""
    ELSE (IF IsModelChar(CharAt(s, 1)) THEN CharAt(s, 1) ELSE "")
         \o StripOtherChars(SubSeq(s, 2, Len(s)))

\* s.replace(/-+/g, '-')
RECURSIVE CollapseHyphens(_)
CollapseHyphens(s) ==
    IF Len(s) = 0 THEN ""
    ELSE IF CharAt(s, 1) = "-" /\ Len(s) > 1 /\ CharAt(s, 2) = "-"
         THEN CollapseHyphens(SubSeq(s, 2, Len(s)))
         ELSE CharAt(s, 1) \o CollapseHyphens(SubSeq(s, 2, Len(s)))

normalizeModelName(model) ==
    CollapseHyphens(StripOtherChars(ReplaceUnderscores(
        ReplaceSpaceRuns(ToLowerCase(Trim(model))))))

(***************************************************************************)
(* Pricing                                                                 *)
(***************************************************************************)
\* In declaration order, which is the order Object.keys() yields.
PRICING_TABLE == <<
    [key |-> "gpt-5.2-codex",        input |-> 175, output |-> 1400],
    [key |-> "gpt-5.2",              input |-> 175, output |-> 1400],
    [key |-> "gpt-5.1-codex-max",    input |-> 125, output |-> 1000],
    [key |-> "gpt-5.1-codex",        input |-> 125, output |-> 1000],
    [key |-> "gpt-5.1",              input |-> 125, output |-> 1000],
    [key |-> "gpt-5.1-codex-mini",   input |-> 25,  output |-> 200],
    [key |-> "gpt-5",                input |-> 125, output |-> 1000],
    [key |-> "gpt-5-mini",           input |-> 25,  output |-> 200],
    [key |-> "gpt-4.1",              input |-> 200, output |-> 800],
    [key |-> "claude-opus-4.5",      input |-> 500, output |-> 2500],
    [key |-> "claude-sonnet-4.5",    input |-> 100, output |-> 300],
    [key |-> "claude-sonnet-4",      input |-> 100, output |-> 300],
    [key |-> "claude-haiku-4.5",     input |-> 10,  output |-> 50],
    [key |-> "gemini-3-pro-preview", input |-> 200, output |-> 1200],
    [key |-> "default",              input |-> 100, output |-> 300] >>

PricingKeys == { PRICING_TABLE[i].key : i \in 1..Len(PRICING_TABLE) }

\* PRICING_TABLE is an object literal: the properties of Object.prototype are
\* read through it as well, each a function or an object, none with rates
ObjectPrototypeKeys ==
    { "constructor", "hasOwnProperty", "isPrototypeOf", "propertyIsEnumerable",
      "toLocaleString", "toString", "valueOf", "__proto__", "__defineGetter__",
      "__defineSetter__", "__lookupGetter__", "__lookupSetter__" }

InheritedProperty(name) == [key |-> name, input |-> Undefined, output |-> Undefined]

PricingOf(key) ==
    PRICING_TABLE[CHOOSE i \in 1..Len(PRICING_TABLE) : PRICING_TABLE[i].key = key]

\* The substring loop of addSessionUsage: the positions of the keys the
\* normalized model includes.
SubstringHits(normalizedModel) ==
    { i \in 1..Len(PRICING_TABLE) : Includes(normalizedModel, PRICING_TABLE[i].key) }

\* The table entry addSessionUsage prices a session with.
ResolvePricing(sessionModel) ==
    LET exact == IF sessionModel \in PricingKeys
                 THEN PricingOf(sessionModel)
                 ELSE IF sessionModel \in ObjectPrototypeKeys
                 THEN InheritedProperty(sessionModel)
                 ELSE PricingOf("default")
        hits  == SubstringHits(normalizeModelName(sessionModel))
    IN  IF hits # {}
        THEN PRICING_TABLE[CHOOSE i \in hits : \A j \in hits : i <= j]
        ELSE exact

\* tokens / 1_000_000 * rate
TimesRate(tokens, rate) == IF rate = Undefined THEN NaN ELSE tokens * rate

\* a + b on costs
PlusCost(a, b) == IF a = NaN \/ b = NaN THEN NaN ELSE a + b

\* the cost of a session, the output tokens left out
SessionCostInputOnly(sessionInputTokens, sessionOutputTokens, sessionModel) ==
    TimesRate(sessionInputTokens, ResolvePricing(sessionModel).input)

SessionCost(sessionInputTokens, sessionOutputTokens, sessionModel) ==
    LET pricing == ResolvePricing(sessionModel)
    IN  PlusCost(TimesRate(sessionInputTokens, pricing.input),
                 TimesRate(sessionOutputTokens, pricing.output))

(***************************************************************************)
(* Dates and bucket keys                                                   *)
(***************************************************************************)
RECURSIVE NumToStr(_)
NumToStr(n) ==
    IF n < 10 THEN DigitChars[n + 1]
    ELSE NumToStr(n \div 10) \o DigitChars[(n % 10) + 1]

\* String(n).padStart(2, '0')
PadStart2(s) == IF Len(s) < 2 THEN "0" \o s ELSE s

getAggregationKey(date, unit) ==
    LET yyyy == NumToStr(date.y)
        mm   == PadStart2(NumToStr(date.m))
        dd   == PadStart2(NumToStr(date.d))
        hh   == PadStart2(NumToStr(date.h))
    IN  IF unit = "month" THEN yyyy \o "-" \o mm
        ELSE IF unit = "hour" THEN yyyy \o "-" \o mm \o "-" \o dd \o " " \o hh \o ":00"
        ELSE yyyy \o "-" \o mm \o "-" \o dd

\* UTF-16 code units of the characters a bucket key or a path is made of
CharCode(c) ==
    IF c = " " THEN 32
    ELSE IF c = "-" THEN 45
    ELSE IF c = "." THEN 46
    ELSE IF c = "/" THEN 47
    ELSE IF c = ":" THEN 58
    ELSE IF c = "_" THEN 95
    ELSE IF \E i \in 1..26 : UpperChars[i] = c
    THEN 64 + (CHOOSE i \in 1..26 : UpperChars[i] = c)
    ELSE IF \E i \in 1..26 : LowerChars[i] = c
    THEN 96 + (CHOOSE i \in 1..26 : LowerChars[i] = c)
    ELSE 47 + (CHOOSE i \in 1..10 : DigitChars[i] = c)

\* a < b on strings, as the comparison of the gap-fill loop and the default
\* Array.prototype.sort() order them
RECURSIVE StrLessFrom(_, _, _)
StrLessFrom(a, b, i) ==
    IF i > Len(b) THEN FALSE
    ELSE IF i > Len(a) THEN TRUE
    ELSE IF CharAt(a, i) = CharAt(b, i)
         THEN StrLessFrom(a, b, i + 1)
         ELSE CharCode(CharAt(a, i)) < CharCode(CharAt(b, i))

StrLess(a, b) == StrLessFrom(a, b, 1)

\* String.prototype.split with a one-character separator
RECURSIVE Split(_, _)
Split(s, sep) ==
    IF ~ \E i \in 1..Len(s) : CharAt(s, i) = sep THEN << s >>
    ELSE LET i == CHOOSE k \in 1..Len(s) :
                     /\ CharAt(s, k) = sep
                     /\ \A j \in 1..(k - 1) : CharAt(s, j) # sep
         IN  << SubSeq(s, 1, i - 1) >> \o Split(SubSeq(s, i + 1, Len(s)), sep)

\* Number(s) and parseInt(s, 10) on a string of decimal digits
RECURSIVE ToNumber(_)
ToNumber(s) ==
    IF Len(s) = 0 THEN 0
    ELSE 10 * ToNumber(SubSeq(s, 1, Len(s) - 1))
         + ((CHOOSE i \in 1..10 : DigitChars[i] = CharAt(s, Len(s))) - 1)

IsLeapYear(y) == (y % 4 = 0 /\ y % 100 # 0) \/ y % 400 = 0

DaysInMonth(y, m) ==
    IF m = 2 THEN (IF IsLeapYear(y) THEN 29 ELSE 28)
    ELSE IF m \in {4, 6, 9, 11} THEN 30 ELSE 31

\* new Date(y, m - 1, d, h) and the setters: fields past their range carry
\* into the next larger field
RECURSIVE MakeDate(_, _, _, _)
MakeDate(y, m, d, h) ==
    IF m > 12 THEN MakeDate(y + 1, m - 12, d, h)
    ELSE IF h > 23 THEN MakeDate(y, m, d + 1, h - 24)
    ELSE IF d > DaysInMonth(y, m) THEN MakeDate(y, m + 1, d - DaysInMonth(y, m), h)
    ELSE [y |-> y, m |-> m, d |-> d, h |-> h]

parseKeyToDate(key, unit) ==
    IF unit = "month"
    THEN LET ym == Split(key, "-")
         IN  MakeDate(ToNumber(ym[1]), ToNumber(ym[2]), 1, 0)
    ELSE IF unit = "hour"
    THEN LET dt  == Split(key, " ")
             ymd == Split(dt[1], "-")
             h   == ToNumber(Split(dt[2], ":")[1])
         IN  MakeDate(ToNumber(ymd[1]), ToNumber(ymd[2]), ToNumber(ymd[3]), h)
    ELSE LET ymd == Split(key, "-")
         IN  MakeDate(ToNumber(ymd[1]), ToNumber(ymd[2]), ToNumber(ymd[3]), 0)

IncrementDateByDay(date, unit) == MakeDate(date.y, date.m, date.d + 1, date.h)

\* an increment of the month that does not carry into the year
IncrementDateWithinYear(date, unit) ==
    IF unit = "month" THEN MakeDate(date.y, (date.m % 12) + 1, date.d, date.h)
    ELSE IF unit = "hour" THEN MakeDate(date.y, date.m, date.d, date.h + 1)
    ELSE MakeDate(date.y, date.m, date.d + 1, date.h)

\* the "Increment" of the gap-fill loop
IncrementDate(date, unit) ==
    IF unit = "month" THEN MakeDate(date.y, date.m + 1, date.d, date.h)
    ELSE IF unit = "hour" THEN MakeDate(date.y, date.m, date.d, date.h + 1)
    ELSE MakeDate(date.y, date.m, date.d + 1, date.h)

\* d1 < d2 on Dates
DateLess(d1, d2) ==
    \/ d1.y < d2.y
    \/ d1.y = d2.y /\ d1.m < d2.m
    \/ d1.y = d2.y /\ d1.m = d2.m /\ d1.d < d2.d
    \/ d1.y = d2.y /\ d1.m = d2.m /\ d1.d = d2.d /\ d1.h < d2.h

(***************************************************************************)
(* Dates, paths and session ids of the inputs                              *)
(***************************************************************************)
Date(y, m, d, h) == [y |-> y, m |-> m, d |-> d, h |-> h]

\* the Invalid Date that new Date() gives for a string it cannot parse
InvalidDate == [y |-> 0 - 1, m |-> 0, d |-> 0, h |-> 0]

\* path.basename and path.dirname, on paths with "/" as separator
Basename(path) == LET parts == Split(path, "/") IN parts[Len(parts)]
Dirname(path) ==
    LET parts == Split(path, "/")
        name  == parts[Len(parts)]
    IN  SubSeq(path, 1, Len(path) - Len(name) - 1)

\* the session ids of the samples
SessionIdList == << "00000000-0000-4000-8000-000000000001",
                    "00000000-0000-4000-8000-000000000002",
                    "00000000-0000-4000-8000-000000000003",
                    "00000000-0000-4000-8000-000000000004" >>

(***************************************************************************)
(* Program state                                                           *)
(***************************************************************************)
VARIABLES
    pc,                   \* where analyzeFiles is
    idx,                  \* position of the loop the program is in
    rankByCost,           \* --rank
    timeUnit,             \* --unit
    limit,                \* --limit, Infinity when none applies
    usageBySession,       \* Map sessionId -> LogSessionUsage (usageFromLogsBySession)
    sessionStateUsage,    \* Map sessionId -> SessionUsage
    sessionIdsFromState,
    totalSessions,
    totalInputTokens,
    totalOutputTokens,
    totalCost,
    aggStats,             \* bucket key -> DailyStats, in insertion order
    reconciled,           \* the calls of addSessionUsage so far, in order
    maxKey,
    currentKey,
    currentDate,
    sortedKeys,
    \* the loop over the session-state files
    files,                \* the paths not yet processed
    filePath,
    eventsRead,           \* the lines of the file read so far
    sessionDateObj,
    sessionId,
    sessionInputTokensFromMessages,
    sessionInputTokensFromTruncationSum,
    sessionOutputTokens,
    sessionModel,
    sessionInputTokens,
    \* analyzeUsageLogFiles
    logFiles,             \* the paths not yet processed
    logFilePath,
    lineNo,               \* the number of lines of the file read so far
    line,                 \* the line read last
    fileSessionId,
    currentSessionId,
    jsonBuffer,           \* << >> is null
    jsonBufferSessionId,
    jsonBufferTimestamp,
    seenUsageBySessionAndResponse,
    usageRecords,         \* the usage records that resolved to a session id, in order
    \* the environment of the run
    utcOffset,            \* hours the local time zone is ahead of UTC
    hasSessionDir,
    hasLogDir,
    sessionFileContents,  \* path -> lines, for the session-state files whose
                          \* content is fixed from the start
    logFileContents,      \* the same for the usage-log files
    fileEstimates,        \* the estimates the session-state files yielded, in order
    dirEntries,           \* the entries of each directory under the session-state root
    unreadableDirs,       \* the directories readdirSync fails on
    stack,                \* findSessionLogFiles: the directories still to read
    eventsJsonl,          \* findSessionLogFiles: the events.jsonl files found
    topLevelJsonl,        \* findSessionLogFiles: the other .jsonl files found
    entryNo,              \* findCopilotUsageLogFiles: position in entries
    processLogs,          \* findCopilotUsageLogFiles: the process logs found
    uuidLogs,             \* findCopilotUsageLogFiles: the session-id logs found
    usageLogFiles         \* what findCopilotUsageLogFiles returned

configVars == << rankByCost, timeUnit, limit >>
totalVars  == << totalSessions, totalInputTokens, totalOutputTokens, totalCost >>
gapVars    == << maxKey, currentKey, currentDate >>
\* what the reconciliation and the report write
reportVars == << sessionIdsFromState, totalVars, aggStats, reconciled, gapVars,
                 sortedKeys >>
\* what the run finds and never writes
envVars == << utcOffset, hasSessionDir, hasLogDir, sessionFileContents,
              logFileContents >>
\* the scan of the usage-log directory
logScanVars == << entryNo, processLogs, uuidLogs, usageLogFiles >>
\* the scans of the two directories
scanVars == << dirEntries, unreadableDirs, stack, eventsJsonl, topLevelJsonl,
               logScanVars >>
\* what the steps of the analysis leave alone
inputVars == << configVars, envVars, scanVars >>
\* the locals of one iteration of the loop over the session-state files
sessionFileVars == << filePath, eventsRead, sessionDateObj, sessionId,
                      sessionInputTokensFromMessages,
                      sessionInputTokensFromTruncationSum, sessionOutputTokens,
                      sessionModel, sessionInputTokens >>
\* all of the session-state extractor but its result, sessionStateUsage
stateExtractorVars == << files, sessionFileVars, fileEstimates >>

\* the locals of one iteration of the loop over the usage-log files
logFileVars == << logFilePath, lineNo, line, fileSessionId, currentSessionId,
                 jsonBuffer, jsonBufferSessionId, jsonBufferTimestamp >>
\* all of the usage-log extractor but its result, usageBySession
logExtractorVars == << logFiles, logFileVars, seenUsageBySessionAndResponse,
                      usageRecords >>

vars == << pc, idx, inputVars, usageBySession, sessionStateUsage, reportVars,
           stateExtractorVars, logExtractorVars >>

\* Map.prototype.has / get on a sequence of records with an id field
HasId(map, id) == \E k \in 1..Len(map) : map[k].id = id
GetById(map, id) == map[CHOOSE k \in 1..Len(map) : map[k].id = id]
IdsOf(map) == { map[k].id : k \in 1..Len(map) }

\* aggStats[key] on the insertion-ordered sequence of buckets
HasKey(stats, key) == \E k \in 1..Len(stats) : stats[k].key = key
StatsOf(stats, key) == stats[CHOOSE k \in 1..Len(stats) : stats[k].key = key]
KeysOf(stats) == [k \in 1..Len(stats) |-> stats[k].key]

EmptyBucket(key) == [key |-> key, sessions |-> 0, input |-> 0, output |-> 0, cost |-> 0]

(***************************************************************************)
(* addSessionUsage                                                         *)
(***************************************************************************)
\* a bucket that holds its latest session only
AddToBucketOverwriting(stats, aggKey, inTokens, outTokens, sessionCost) ==
    LET withKey == IF HasKey(stats, aggKey) THEN stats
                   ELSE Append(stats, EmptyBucket(aggKey))
    IN  [k \in 1..Len(withKey) |->
            IF withKey[k].key = aggKey
            THEN [key      |-> aggKey,
                  sessions |-> 1,
                  input    |-> inTokens,
                  output   |-> outTokens,
                  cost     |-> sessionCost]
            ELSE withKey[k]]

\* aggStats after one session is added to the bucket of its date
AddToBucket(stats, aggKey, inTokens, outTokens, sessionCost) ==
    LET withKey == IF HasKey(stats, aggKey) THEN stats
                   ELSE Append(stats, EmptyBucket(aggKey))
    IN  [k \in 1..Len(withKey) |->
            IF withKey[k].key = aggKey
            THEN [key      |-> aggKey,
                  sessions |-> withKey[k].sessions + 1,
                  input    |-> withKey[k].input + inTokens,
                  output   |-> withKey[k].output + outTokens,
                  cost     |-> PlusCost(withKey[k].cost, sessionCost)]
            ELSE withKey[k]]

\* callerId is the id of the loop that calls; addSessionUsage does not see it
addSessionUsage(callerId, dateObj, inTokens, outTokens, modelName) ==
    LET pricing     == ResolvePricing(modelName)
        sessionCost == SessionCost(inTokens, outTokens, modelName)
        aggKey      == getAggregationKey(dateObj, timeUnit)
    IN  /\ totalSessions' = totalSessions + 1
        /\ totalInputTokens' = totalInputTokens + inTokens
        /\ totalOutputTokens' = totalOutputTokens + outTokens
        /\ totalCost' = PlusCost(totalCost, sessionCost)
        /\ aggStats' = AddToBucket(aggStats, aggKey, inTokens,
                                   outTokens, sessionCost)
        /\ reconciled' = Append(reconciled,
               [sessionId |-> callerId, date |-> dateObj,
                inputTokens |-> inTokens,
                outputTokens |-> outTokens,
                model |-> modelName, pricingKey |-> pricing.key,
                cost |-> sessionCost, key |-> aggKey])

(***************************************************************************)
(* analyzeFiles: reconciliation                                            *)
(***************************************************************************)
\* the model argument of the call for a session that has usage from the logs:
\* usageFromLogs.model || usage.model
ReconciledModel(usage, usageFromLogs) ==
    IF usageFromLogs.model # "" THEN usageFromLogs.model ELSE usage.model

ReconciledTokensSummed(usage, usageFromLogs) ==
    [input  |-> usage.inputTokens + usageFromLogs.inputTokens,
     output |-> usage.outputTokens + usageFromLogs.outputTokens]

\* the token arguments of that call
ReconciledTokens(usage, usageFromLogs) ==
    [input  |-> usageFromLogs.inputTokens,
     output |-> usageFromLogs.outputTokens]

\* one iteration of the loop over sessionStateUsage.entries()
ReconcileSession ==
    /\ pc = "reconcile"
    /\ idx <= Len(sessionStateUsage)
    /\ LET usage == sessionStateUsage[idx]
       IN  /\ IF HasId(usageBySession, usage.id)
              THEN LET usageFromLogs == GetById(usageBySession, usage.id)
                   IN  addSessionUsage(usage.id, usage.date,
                                       ReconciledTokens(usage, usageFromLogs).input,
                                       ReconciledTokens(usage, usageFromLogs).output,
                                       ReconciledModel(usage, usageFromLogs))
              ELSE addSessionUsage(usage.id, usage.date, usage.inputTokens,
                                   usage.outputTokens, usage.model)
           /\ sessionIdsFromState' = sessionIdsFromState \cup {usage.id}
    /\ idx' = idx + 1
    /\ UNCHANGED << stateExtractorVars, logExtractorVars, pc, inputVars, usageBySession, sessionStateUsage, gapVars,
                    sortedKeys >>

ReconcileDone ==
    /\ pc = "reconcile"
    /\ idx > Len(sessionStateUsage)
    /\ pc' = "standalone"
    /\ idx' = 1
    /\ UNCHANGED << stateExtractorVars, logExtractorVars, inputVars, usageBySession, sessionStateUsage,
                    sessionIdsFromState, totalVars, aggStats, reconciled,
                    gapVars, sortedKeys >>

SkipStandaloneIgnoringTimestamp(usageFromLogs) ==
    usageFromLogs.id \in sessionIdsFromState

\* the second "continue" alone
SkipStandaloneUntimedOnly(usageFromLogs) ==
    usageFromLogs.timestamp = NoDate

\* the two "continue"s of the loop over usageFromLogsBySession.entries()
SkipStandalone(usageFromLogs) ==
    \/ usageFromLogs.id \in sessionIdsFromState
    \/ usageFromLogs.timestamp = NoDate

\* one iteration of the loop over usageFromLogsBySession.entries()
StandaloneSession ==
    /\ pc = "standalone"
    /\ idx <= Len(usageBySession)
    /\ LET usageFromLogs == usageBySession[idx]
       IN  IF SkipStandalone(usageFromLogs)
           THEN UNCHANGED << totalVars, aggStats, reconciled >>
           ELSE addSessionUsage(usageFromLogs.id, usageFromLogs.timestamp,
                                usageFromLogs.inputTokens,
                                usageFromLogs.outputTokens, usageFromLogs.model)
    /\ idx' = idx + 1
    /\ UNCHANGED << stateExtractorVars, logExtractorVars, pc, inputVars, usageBySession, sessionStateUsage,
                    sessionIdsFromState, gapVars, sortedKeys >>

StandaloneDone ==
    /\ pc = "standalone"
    /\ idx > Len(usageBySession)
    /\ pc' = "gapfill"
    /\ UNCHANGED << stateExtractorVars, logExtractorVars, idx, inputVars, usageBySession, sessionStateUsage,
                    sessionIdsFromState, totalVars, aggStats, reconciled,
                    gapVars, sortedKeys >>

(***************************************************************************)
(* analyzeFiles: gap filling, ordering, limit                              *)
(***************************************************************************)
\* Array.prototype.sort() without a comparator, on distinct or equal strings:
\* insertion keeps equal elements in their order
RECURSIVE InsertAscending(_, _)
InsertAscending(sorted, x) ==
    IF Len(sorted) = 0 THEN << x >>
    ELSE IF StrLess(x, sorted[Len(sorted)])
         THEN Append(InsertAscending(SubSeq(sorted, 1, Len(sorted) - 1), x),
                     sorted[Len(sorted)])
         ELSE Append(sorted, x)

RECURSIVE SortAscending(_)
SortAscending(keys) ==
    IF Len(keys) = 0 THEN << >>
    ELSE InsertAscending(SortAscending(SubSeq(keys, 1, Len(keys) - 1)), keys[Len(keys)])

ReverseOmitted(q) == q

\* Array.prototype.reverse()
Reverse(q) == [k \in 1..Len(q) |-> q[Len(q) + 1 - k]]

\* aggStats[b].cost - aggStats[a].cost < 0; a NaN difference compares as +0
CostComparesBefore(stats, a, b) ==
    /\ StatsOf(stats, a).cost # NaN
    /\ StatsOf(stats, b).cost # NaN
    /\ StatsOf(stats, b).cost - StatsOf(stats, a).cost < 0

\* sort((a, b) => aggStats[b].cost - aggStats[a].cost): stable, so a key moves
\* ahead only of keys of strictly smaller cost
RECURSIVE InsertByCost(_, _, _)
InsertByCost(sorted, x, stats) ==
    IF Len(sorted) = 0 THEN << x >>
    ELSE IF CostComparesBefore(stats, x, sorted[Len(sorted)])
         THEN Append(InsertByCost(SubSeq(sorted, 1, Len(sorted) - 1), x, stats),
                     sorted[Len(sorted)])
         ELSE Append(sorted, x)

RECURSIVE SortByCost(_, _)
SortByCost(keys, stats) ==
    IF Len(keys) = 0 THEN << >>
    ELSE InsertByCost(SortByCost(SubSeq(keys, 1, Len(keys) - 1), stats),
                      keys[Len(keys)], stats)

Slice0OneShort(q, n) == SubSeq(q, 1, IF n - 1 < Len(q) THEN n - 1 ELSE Len(q))

\* Array.prototype.slice(0, n)
Slice0(q, n) == SubSeq(q, 1, IF n < Len(q) THEN n ELSE Len(q))

\* gaps filled in rank mode too
GapFillStartRanked ==
    /\ pc = "gapfill"
    /\ IF Len(aggStats) > 0
       THEN LET keys   == SortAscending(KeysOf(aggStats))
                minKey == keys[1]
            IN  /\ maxKey' = keys[Len(keys)]
                /\ currentKey' = minKey
                /\ currentDate' = parseKeyToDate(minKey, timeUnit)
                /\ pc' = "gaploop"
       ELSE /\ pc' = "sort"
            /\ UNCHANGED gapVars
    /\ UNCHANGED << stateExtractorVars, logExtractorVars, idx, inputVars, usageBySession, sessionStateUsage,
                    sessionIdsFromState, totalVars, aggStats, reconciled,
                    sortedKeys >>

\* "Fill gaps if not ranking by cost": the code before the while loop
GapFillStart ==
    /\ pc = "gapfill"
    /\ IF ~rankByCost /\ Len(aggStats) > 0
       THEN LET keys   == SortAscending(KeysOf(aggStats))
                minKey == keys[1]
            IN  /\ maxKey' = keys[Len(keys)]
                /\ currentKey' = minKey
                /\ currentDate' = parseKeyToDate(minKey, timeUnit)
                /\ pc' = "gaploop"
       ELSE /\ pc' = "sort"
            /\ UNCHANGED gapVars
    /\ UNCHANGED << stateExtractorVars, logExtractorVars, idx, inputVars, usageBySession, sessionStateUsage,
                    sessionIdsFromState, totalVars, aggStats, reconciled,
                    sortedKeys >>

\* one iteration of while (currentKey < maxKey), the break included
GapFillStep ==
    /\ pc = "gaploop"
    /\ StrLess(currentKey, maxKey)
    /\ LET nextDate == IncrementDate(currentDate, timeUnit)
           nextKey  == getAggregationKey(nextDate, timeUnit)
       IN  /\ currentDate' = nextDate
           /\ currentKey' = nextKey
           /\ IF StrLess(maxKey, nextKey)
              THEN /\ pc' = "sort"
                   /\ UNCHANGED aggStats
              ELSE /\ pc' = pc
                   /\ aggStats' = IF HasKey(aggStats, nextKey) THEN aggStats
                                  ELSE Append(aggStats, EmptyBucket(nextKey))
    /\ UNCHANGED << stateExtractorVars, logExtractorVars, idx, inputVars, usageBySession, sessionStateUsage,
                    sessionIdsFromState, totalVars, reconciled, maxKey,
                    sortedKeys >>

GapFillEnd ==
    /\ pc = "gaploop"
    /\ ~StrLess(currentKey, maxKey)
    /\ pc' = "sort"
    /\ UNCHANGED << stateExtractorVars, logExtractorVars, idx, inputVars, usageBySession, sessionStateUsage,
                    sessionIdsFromState, totalVars, aggStats, reconciled,
                    gapVars, sortedKeys >>

SortKeys ==
    /\ pc = "sort"
    /\ sortedKeys' = IF rankByCost
                     THEN SortByCost(KeysOf(aggStats), aggStats)
                     ELSE Reverse(SortAscending(KeysOf(aggStats)))
    /\ pc' = "limit"
    /\ UNCHANGED << stateExtractorVars, logExtractorVars, idx, inputVars, usageBySession, sessionStateUsage,
                    sessionIdsFromState, totalVars, aggStats, reconciled,
                    gapVars >>

ApplyLimit ==
    /\ pc = "limit"
    /\ sortedKeys' = IF limit # Infinity THEN Slice0(sortedKeys, limit)
                     ELSE sortedKeys
    /\ pc' = "report"
    /\ UNCHANGED << stateExtractorVars, logExtractorVars, idx, inputVars, usageBySession, sessionStateUsage,
                    sessionIdsFromState, totalVars, aggStats, reconciled,
                    gapVars >>

(***************************************************************************)
(* The patterns of the usage-log extractor                                 *)
(***************************************************************************)
\* s[i], "" outside the string
At(s, i) == IF i >= 1 /\ i <= Len(s) THEN SubSeq(s, i, i) ELSE ""

\* s.substring(i - 1, j)
Sub(s, i, j) == SubSeq(s, IF i < 1 THEN 1 ELSE i, IF j > Len(s) THEN Len(s) ELSE j)

IsDigit(c) == c \in SeqToSet(DigitChars)
IsHexDigit(c) == IsDigit(c) \/ LowerOf(c) \in {"a", "b", "c", "d", "e", "f"}
\* \w
IsWordChar(c) == IsDigit(c) \/ c = "_" \/ LowerOf(c) \in SeqToSet(LowerChars)

\* the last index of the run of digits (of white space) that starts at i,
\* i - 1 if the run is empty
RECURSIVE DigitRunEnd(_, _)
DigitRunEnd(s, i) == IF IsDigit(At(s, i)) THEN DigitRunEnd(s, i + 1) ELSE i - 1

RECURSIVE SpaceRunEnd(_, _)
SpaceRunEnd(s, i) == IF IsSpace(At(s, i)) THEN SpaceRunEnd(s, i + 1) ELSE i - 1

\* the first index from i on where c stands, 0 if there is none
RECURSIVE IndexOf(_, _, _)
IndexOf(s, c, i) ==
    IF i > Len(s) THEN 0
    ELSE IF At(s, i) = c THEN i
    ELSE IndexOf(s, c, i + 1)

\* UUID_PATTERN.test(s)
UUID_PATTERN(s) ==
    /\ Len(s) = 36
    /\ \A i \in 1..36 : IF i \in {9, 14, 19, 24} THEN At(s, i) = "-"
                        ELSE IsHexDigit(At(s, i))

\* UUID_LOG_FILE_PATTERN.test(fileName)
UUID_LOG_FILE_PATTERN(fileName) ==
    /\ Len(fileName) = 40
    /\ UUID_PATTERN(SubSeq(fileName, 1, 36))
    /\ ToLowerCase(SubSeq(fileName, 37, 40)) = ".log"

\* PROCESS_LOG_FILE_PATTERN.test(fileName)
PROCESS_LOG_FILE_PATTERN(fileName) ==
    /\ Len(fileName) >= 12
    /\ ToLowerCase(SubSeq(fileName, 1, 8)) = "process-"
    /\ ToLowerCase(SubSeq(fileName, Len(fileName) - 3, Len(fileName))) = ".log"

\* line.match(LOG_PREFIX_PATTERN): group 1 is the timestamp, group 2 the payload
NoPrefix == [matched |-> FALSE, timestamp |-> "", payload |-> ""]

\* the line from the bracketed tag on: open is where "[" must stand, close
\* where the first "]" after it stands
PrefixTag(s, zPos, open, close) ==
    IF At(s, open) = "[" /\ close > open + 1
    THEN [matched   |-> TRUE,
          timestamp |-> SubSeq(s, 1, zPos),
          payload   |-> SubSeq(s, IF IsSpace(At(s, close + 1)) THEN close + 2
                                  ELSE close + 1, Len(s))]
    ELSE NoPrefix

\* the line from the "Z" on: wsEnd is where the white space after it ends
PrefixZone(s, zPos, wsEnd) ==
    IF At(s, zPos) = "Z" /\ wsEnd > zPos
    THEN PrefixTag(s, zPos, wsEnd + 1, IndexOf(s, "]", wsEnd + 2))
    ELSE NoPrefix

\* the line after the seconds: fracEnd is where the fraction, if any, ends
PrefixFraction(s, fracEnd) ==
    PrefixZone(s, fracEnd + 1, SpaceRunEnd(s, fracEnd + 2))

LOG_PREFIX_PATTERN(s) ==
    IF /\ \A p \in {1, 2, 3, 4, 6, 7, 9, 10, 12, 13, 15, 16, 18, 19} :
              IsDigit(At(s, p))
       /\ At(s, 5) = "-" /\ At(s, 8) = "-" /\ At(s, 11) = "T"
       /\ At(s, 14) = ":" /\ At(s, 17) = ":"
    THEN PrefixFraction(s, IF At(s, 20) = "." /\ IsDigit(At(s, 21))
                           THEN DigitRunEnd(s, 21) ELSE 19)
    ELSE NoPrefix

\* the local calendar fields of a time given by its UTC fields, in a zone that
\* is offset hours ahead of UTC
ShiftHours(date, offset) ==
    IF date.h + offset > 23
    THEN MakeDate(date.y, date.m, date.d + 1, date.h + offset - 24)
    ELSE IF date.h + offset >= 0
         THEN Date(date.y, date.m, date.d, date.h + offset)
    ELSE IF date.d > 1
         THEN Date(date.y, date.m, date.d - 1, date.h + offset + 24)
    ELSE IF date.m > 1
         THEN Date(date.y, date.m - 1, DaysInMonth(date.y, date.m - 1),
                   date.h + offset + 24)
    ELSE Date(date.y - 1, 12, 31, date.h + offset + 24)

\* new Date(timestamp) for a timestamp of the shape LOG_PREFIX_PATTERN admits
DateFromTimestamp(ts) ==
    LET y  == ToNumber(SubSeq(ts, 1, 4))
        m  == ToNumber(SubSeq(ts, 6, 7))
        d  == ToNumber(SubSeq(ts, 9, 10))
        h  == ToNumber(SubSeq(ts, 12, 13))
        mi == ToNumber(SubSeq(ts, 15, 16))
        se == ToNumber(SubSeq(ts, 18, 19))
    IN  IF m \in 1..12 /\ d >= 1 /\ h <= 23 /\ mi <= 59 /\ se <= 59
        THEN IF d <= DaysInMonth(y, m) THEN ShiftHours(Date(y, m, d, h), utcOffset)
             ELSE InvalidDate
        ELSE InvalidDate

\* s is a timestamp YYYY-MM-DDTHH:MM:SS, with or without a fraction, and Z
IsUtcTimestamp(s) ==
    /\ \A p \in {1, 2, 3, 4, 6, 7, 9, 10, 12, 13, 15, 16, 18, 19} : IsDigit(At(s, p))
    /\ At(s, 5) = "-" /\ At(s, 8) = "-" /\ At(s, 11) = "T"
    /\ At(s, 14) = ":" /\ At(s, 17) = ":"
    /\ \/ Len(s) = 20 /\ At(s, 20) = "Z"
       \/ /\ At(s, 20) = "." /\ DigitRunEnd(s, 21) >= 21
          /\ DigitRunEnd(s, 21) = Len(s) - 1 /\ At(s, Len(s)) = "Z"

\* new Date(s) for a UTC timestamp and for a text that is no date at all
DateFromString(s) ==
    IF IsUtcTimestamp(s) THEN DateFromTimestamp(s) ELSE InvalidDate

\* the UUID that follows a keyword of SESSION_CONTEXT_PATTERN, q being where
\* the white space after the keyword ends; NULL if none follows
ContextUuidAt(s, q) ==
    IF UUID_PATTERN(Sub(s, q, q + 35)) /\ ~IsWordChar(At(s, q + 36))
    THEN Sub(s, q, q + 35) ELSE NULL

\* the UUID captured by a match of SESSION_CONTEXT_PATTERN that starts at p,
\* NULL if there is no match there
SessionContextAt(s, p) ==
    IF LowerOf(At(s, p)) \notin {"s", "w"} THEN NULL
    ELSE IF p > 1 /\ IsWordChar(At(s, p - 1)) THEN NULL
    ELSE IF ToLowerCase(Sub(s, p, p + 6)) = "session"
         THEN ContextUuidAt(s, SpaceRunEnd(s, p + 7) + 1)
    ELSE IF ToLowerCase(Sub(s, p, p + 21)) = "workspace initialized:"
         THEN ContextUuidAt(s, SpaceRunEnd(s, p + 22) + 1)
    ELSE NULL

LeftmostContext(s, hits) ==
    IF hits = {} THEN NULL
    ELSE SessionContextAt(s, CHOOSE p \in hits : \A q \in hits : p <= q)

\* payloadLine.match(SESSION_CONTEXT_PATTERN): group 1 of the leftmost match,
\* NULL if there is none
SESSION_CONTEXT_PATTERN(s) ==
    LeftmostContext(s, { p \in 1..Len(s) : SessionContextAt(s, p) # NULL })

(***************************************************************************)
(* JSON.parse, for texts made of objects, strings without escapes,         *)
(* unsigned integers and null                                              *)
(***************************************************************************)
\* a JSON value: t is its type, s, n or o its content
JUndefined == [t |-> "undefined", s |-> "", n |-> 0, o |-> << >>]
JNull      == [t |-> "null", s |-> "", n |-> 0, o |-> << >>]
JString(x) == [t |-> "string", s |-> x, n |-> 0, o |-> << >>]
JNumber(x) == [t |-> "number", s |-> "", n |-> x, o |-> << >>]
\* an object is the sequence of its members [k, v], in the order of the text
JObject(members) == [t |-> "object", s |-> "", n |-> 0, o |-> members]

SyntaxError == [ok |-> FALSE, v |-> JUndefined, pos |-> 0]
Parsed(v, pos) == [ok |-> TRUE, v |-> v, pos |-> pos]

\* a string that starts at the quote at i
ParseString(s, i) ==
    LET close == IndexOf(s, "\"", i + 1)
    IN  IF close = 0 THEN SyntaxError
        ELSE Parsed(JString(SubSeq(s, i + 1, close - 1)), close + 1)

RECURSIVE ParseValue(_, _), ParseMembers(_, _, _)

\* after a member: a comma and more members, or the closing brace
MembersAfter(s, next, members) ==
    IF At(s, next) = "," THEN ParseMembers(s, next + 1, members)
    ELSE IF At(s, next) = "}" THEN Parsed(JObject(members), next + 1)
    ELSE SyntaxError

\* a member whose key and value are read
MemberRead(s, key, value, members) ==
    IF ~value.ok THEN SyntaxError
    ELSE MembersAfter(s, SpaceRunEnd(s, value.pos) + 1,
                      Append(members, [k |-> key.v.s, v |-> value.v]))

\* a member whose key is read: the colon at colon, and the value
MemberValue(s, key, colon, members) ==
    IF ~key.ok \/ At(s, colon) # ":" THEN SyntaxError
    ELSE MemberRead(s, key, ParseValue(s, colon + 1), members)

\* a member whose key is read
MemberKey(s, key, members) ==
    MemberValue(s, key, SpaceRunEnd(s, key.pos) + 1, members)

\* the member that starts at j
MemberAt(s, j, members) ==
    IF At(s, j) = "\"" THEN MemberKey(s, ParseString(s, j), members)
    ELSE SyntaxError

\* the members of an object from i on, up to its closing brace
ParseMembers(s, i, members) == MemberAt(s, SpaceRunEnd(s, i) + 1, members)

\* an object whose opening brace is read: k is where its text goes on
ObjectAt(s, k) ==
    IF At(s, k) = "}" THEN Parsed(JObject(<< >>), k + 1)
    ELSE ParseMembers(s, k, << >>)

\* the unsigned integer at j..e
NumberAt(s, j, e) ==
    IF At(s, j) = "0" /\ e > j THEN SyntaxError
    ELSE Parsed(JNumber(ToNumber(SubSeq(s, j, e))), e + 1)

\* the value that starts at j
ValueAt(s, j) ==
    IF At(s, j) = "\"" THEN ParseString(s, j)
    ELSE IF At(s, j) = "{" THEN ObjectAt(s, SpaceRunEnd(s, j + 1) + 1)
    ELSE IF IsDigit(At(s, j)) THEN NumberAt(s, j, DigitRunEnd(s, j))
    ELSE IF Sub(s, j, j + 3) = "null" THEN Parsed(JNull, j + 4)
    ELSE SyntaxError

\* the value that starts at or after i, and the index after it
ParseValue(s, i) == ValueAt(s, SpaceRunEnd(s, i) + 1)

\* a text is one value and white space
WholeText(text, r) ==
    IF r.ok /\ SpaceRunEnd(text, r.pos) = Len(text) THEN r ELSE SyntaxError

\* JSON.parse(text): ok is FALSE where it throws
JsonParse(text) == WholeText(text, ParseValue(text, 1))

\* value[name]: the last member of that name
Property(value, name) ==
    LET hits == { i \in 1..Len(value.o) : value.o[i].k = name }
    IN  IF value.t # "object" \/ hits = {} THEN JUndefined
        ELSE value.o[CHOOSE i \in hits : \A j \in hits : j <= i].v

(***************************************************************************)
(* extractUsageFromResponsePayload                                         *)
(***************************************************************************)
NoUsageRecord == [found |-> FALSE, promptTokens |-> 0, completionTokens |-> 0,
                  responseId |-> NULL, sessionId |-> NULL, model |-> NULL]

\* typeof value === 'string' ? value : null
StringOrNull(value) == IF value.t = "string" THEN value.s ELSE NULL

\* a ?? b
Coalesce(a, b) == IF a.t \in {"null", "undefined"} THEN b ELSE a

\* the record built from the fields of the payload
UsageRecordOf(promptTokens, completionTokens, id, responseId, sessionIdValue, model) ==
    IF promptTokens.t # "number" \/ completionTokens.t # "number"
    THEN NoUsageRecord
    ELSE [found            |-> TRUE,
          promptTokens     |-> promptTokens.n,
          completionTokens |-> completionTokens.n,
          responseId       |-> IF id.t = "string" THEN id.s
                               ELSE StringOrNull(responseId),
          sessionId        |-> StringOrNull(sessionIdValue),
          model            |-> StringOrNull(model)]

UsageOf(payload, usage) ==
    IF usage.t # "object" THEN NoUsageRecord
    ELSE UsageRecordOf(Property(usage, "prompt_tokens"),
                       Property(usage, "completion_tokens"),
                       Property(payload, "id"),
                       Property(payload, "responseId"),
                       Coalesce(Property(payload, "sessionId"),
                                Property(payload, "session_id")),
                       Property(payload, "model"))

extractUsageFromResponsePayload(payload) ==
    IF payload.t # "object" THEN NoUsageRecord
    ELSE UsageOf(payload, Property(payload, "usage"))

(***************************************************************************)
(* analyzeUsageLogFiles                                                    *)
(***************************************************************************)
\* a null or empty string
Falsy(s) == s = NULL \/ s = ""

\* jsonBuffer.join('\n')
RECURSIVE Join(_)
Join(buffer) ==
    IF Len(buffer) = 0 THEN ""
    ELSE IF Len(buffer) = 1 THEN buffer[1]
    ELSE buffer[1] \o "\n" \o Join(Tail(buffer))

ResolvedSessionIdFileFirst(usageRecord, contextSessionId, fileId) ==
    IF ~Falsy(fileId) THEN fileId
    ELSE IF ~Falsy(contextSessionId) THEN contextSessionId
    ELSE usageRecord.sessionId

\* usageRecord.sessionId || contextSessionId || fileSessionId
ResolvedSessionId(usageRecord, contextSessionId, fileId) ==
    IF ~Falsy(usageRecord.sessionId) THEN usageRecord.sessionId
    ELSE IF ~Falsy(contextSessionId) THEN contextSessionId
    ELSE fileId

\* `${sessionId}:${usageRecord.responseId}`
DedupeKey(id, responseId) == id \o ":" \o responseId

\* seenUsageBySessionAndResponse.has(dedupeKey), dropped
SeenNever(seen, dedupeKey) == FALSE

\* seenUsageBySessionAndResponse.has(dedupeKey)
Seen(seen, dedupeKey) == dedupeKey \in seen

\* usageBySession after a usage record is added, the model of the latest
\* record winning
AddUsageRecordLatestModel(map, id, usageRecord, contextTimestamp) ==
    IF HasId(map, id)
    THEN [k \in 1..Len(map) |->
            IF map[k].id = id
            THEN [id           |-> id,
                  inputTokens  |-> map[k].inputTokens + usageRecord.promptTokens,
                  outputTokens |-> map[k].outputTokens + usageRecord.completionTokens,
                  model        |-> IF ~Falsy(usageRecord.model)
                                   THEN usageRecord.model ELSE map[k].model,
                  timestamp    |-> IF contextTimestamp # NoDate
                                      /\ (map[k].timestamp = NoDate
                                          \/ DateLess(contextTimestamp, map[k].timestamp))
                                   THEN contextTimestamp ELSE map[k].timestamp]
            ELSE map[k]]
    ELSE Append(map, [id           |-> id,
                      inputTokens  |-> usageRecord.promptTokens,
                      outputTokens |-> usageRecord.completionTokens,
                      model        |-> IF Falsy(usageRecord.model) THEN "default"
                                       ELSE usageRecord.model,
                      timestamp    |-> contextTimestamp])

\* usageBySession after a usage record is added to the session's entry
AddUsageRecord(map, id, usageRecord, contextTimestamp) ==
    IF HasId(map, id)
    THEN [k \in 1..Len(map) |->
            IF map[k].id = id
            THEN [id           |-> id,
                  inputTokens  |-> map[k].inputTokens + usageRecord.promptTokens,
                  outputTokens |-> map[k].outputTokens + usageRecord.completionTokens,
                  model        |-> IF map[k].model = "default" /\ ~Falsy(usageRecord.model)
                                   THEN usageRecord.model ELSE map[k].model,
                  timestamp    |-> IF contextTimestamp # NoDate
                                      /\ (map[k].timestamp = NoDate
                                          \/ DateLess(contextTimestamp, map[k].timestamp))
                                   THEN contextTimestamp ELSE map[k].timestamp]
            ELSE map[k]]
    ELSE Append(map, [id           |-> id,
                      inputTokens  |-> usageRecord.promptTokens,
                      outputTokens |-> usageRecord.completionTokens,
                      model        |-> IF Falsy(usageRecord.model) THEN "default"
                                       ELSE usageRecord.model,
                      timestamp    |-> contextTimestamp])

\* usageBySession, seenUsageBySessionAndResponse and usageRecords as they are
Kept == [usageBySession |-> usageBySession,
         seen           |-> seenUsageBySessionAndResponse,
         usageRecords   |-> usageRecords]

\* the entry of usageRecords for a usage record that resolved to id
Extracted(usageRecord, id) ==
    [file             |-> logFilePath,
     sessionId        |-> id,
     responseId       |-> usageRecord.responseId,
     promptTokens     |-> usageRecord.promptTokens,
     completionTokens |-> usageRecord.completionTokens,
     model            |-> usageRecord.model,
     timestamp        |-> jsonBufferTimestamp]

FinalizeResolvedDedupingAll(usageRecord, id, dedupeKey) ==
    IF Seen(seenUsageBySessionAndResponse, dedupeKey)
    THEN [Kept EXCEPT !.usageRecords = Append(usageRecords, Extracted(usageRecord, id))]
    ELSE [usageBySession |-> AddUsageRecord(usageBySession, id, usageRecord,
                                            jsonBufferTimestamp),
          seen           |-> seenUsageBySessionAndResponse \cup {dedupeKey},
          usageRecords   |-> Append(usageRecords, Extracted(usageRecord, id))]

\* finalizeJsonBuffer from the dedup on
FinalizeResolved(usageRecord, id, dedupeKey) ==
    IF ~Falsy(usageRecord.responseId) /\ Seen(seenUsageBySessionAndResponse, dedupeKey)
    THEN [Kept EXCEPT !.usageRecords = Append(usageRecords, Extracted(usageRecord, id))]
    ELSE [usageBySession |-> AddUsageRecord(usageBySession, id, usageRecord,
                                            jsonBufferTimestamp),
          seen           |-> IF ~Falsy(usageRecord.responseId)
                             THEN seenUsageBySessionAndResponse \cup {dedupeKey}
                             ELSE seenUsageBySessionAndResponse,
          usageRecords   |-> Append(usageRecords, Extracted(usageRecord, id))]

\* the response id marked as seen before the session id is checked
FinalizeRecordMarkingSeen(usageRecord, id) ==
    IF Falsy(id) \/ ~UUID_PATTERN(id)
    THEN [Kept EXCEPT !.seen =
              IF ~Falsy(usageRecord.responseId)
              THEN seenUsageBySessionAndResponse
                       \cup {DedupeKey(id, usageRecord.responseId)}
              ELSE seenUsageBySessionAndResponse]
    ELSE FinalizeResolved(usageRecord, id, DedupeKey(id, usageRecord.responseId))

\* finalizeJsonBuffer from the check of the session id on
FinalizeRecord(usageRecord, id) ==
    IF Falsy(id) \/ ~UUID_PATTERN(id) THEN Kept
    ELSE FinalizeResolved(usageRecord, id, DedupeKey(id, usageRecord.responseId))

\* finalizeJsonBuffer from the extraction on
FinalizeUsage(usageRecord) ==
    IF ~usageRecord.found THEN Kept
    ELSE FinalizeRecord(usageRecord,
                        ResolvedSessionId(usageRecord, jsonBufferSessionId,
                                          fileSessionId))

FinalizePayloadLosingAll(parsed) ==
    IF ~parsed.ok THEN [Kept EXCEPT !.usageBySession = << >>]
    ELSE FinalizeUsage(extractUsageFromResponsePayload(parsed.v))

\* finalizeJsonBuffer from JSON.parse on
FinalizePayload(parsed) ==
    IF ~parsed.ok THEN Kept
    ELSE FinalizeUsage(extractUsageFromResponsePayload(parsed.v))

FinalizeText(jsonText) ==
    IF jsonText = "" THEN Kept ELSE FinalizePayload(JsonParse(jsonText))

\* what finalizeJsonBuffer leaves in usageBySession,
\* seenUsageBySessionAndResponse and usageRecords for the buffer that is open
finalizeJsonBuffer == FinalizeText(Trim(Join(jsonBuffer)))

\* basename of a path, and the session id its name gives
FileSessionId(path) ==
    IF UUID_LOG_FILE_PATTERN(Basename(path))
    THEN SubSeq(Basename(path), 1, Len(Basename(path)) - 4)
    ELSE NULL

\* the number of lines of a usage-log file
MaxLogLines == 3

Timestamps == << "2025-01-10T09:00:00.000Z", "2025-01-08T15:00:00Z",
                 "2025-13-01T00:00:00Z" >>

UsageText == "\"usage\":{\"prompt_tokens\":100,\"completion_tokens\":50}"

\* the lines a usage-log file is made of
LogLineSamples ==
    { Timestamps[1] \o " [INFO] Workspace initialized: " \o SessionIdList[1],
      Timestamps[1] \o " [INFO] Request completed",
      Timestamps[1] \o " [DEBUG] {\"id\":\"r1\"," \o UsageText \o ",\"model\":\"gpt-5\"}",
      Timestamps[2] \o " [DEBUG] {\"id\":\"r1\",\"session_id\":\""
          \o SessionIdList[2] \o "\"," \o UsageText \o "}",
      Timestamps[2] \o " [DEBUG] {",
      "  \"responseId\":\"r2\"," \o UsageText,
      "}",
      Timestamps[3] \o " [DEBUG] {\"usage\":{\"prompt_tokens\":7,\"completion_tokens\":3},"
          \o "\"model\":\"claude-opus-4.5\"}",
      Timestamps[3] \o " [DEBUG] {\"id\":\"r3\",\"usage\":{\"prompt_tokens\":\"many\"}}",
      Timestamps[1] \o " [INFO] Response: {\"id\":\"r8\"," \o UsageText \o "}",
      "{\"id\":\"r9\"," \o UsageText \o "}" }

\* the paths findCopilotUsageLogFiles can return
LogFilePaths ==
    { "/logs/process-1.log", "/logs/" \o SessionIdList[1] \o ".log" }

\* the lines that can come next in the file: the next line of its content if
\* that is fixed, any line otherwise; none at the end of the file
NextLines(contents, path, read, max, samples) ==
    IF path \in DOMAIN contents
    THEN IF read < Len(contents[path]) THEN {contents[path][read + 1]} ELSE {}
    ELSE IF read < max THEN samples ELSE {}

\* the file can be at its end
AtEnd(contents, path, read) ==
    path \in DOMAIN contents => read = Len(contents[path])

\* findCopilotUsageLogFiles returns the process logs before the logs named
\* after a session; the order inside each family is the sorted one and is left
\* open here
ComesFirst(path, remaining) ==
    \A other \in remaining :
        PROCESS_LOG_FILE_PATTERN(Basename(other)) => PROCESS_LOG_FILE_PATTERN(Basename(path))

\* the start of one iteration, the session context of the file before kept
LogFileOpenKeepingContext ==
    /\ pc = "logs"
    /\ \E path \in logFiles :
          /\ ComesFirst(path, logFiles)
          /\ logFiles' = logFiles \ {path}
          /\ logFilePath' = path
          /\ fileSessionId' = FileSessionId(path)
          /\ currentSessionId' = IF currentSessionId = NULL THEN FileSessionId(path)
                                 ELSE currentSessionId
    /\ jsonBuffer' = << >>
    /\ jsonBufferSessionId' = NULL
    /\ jsonBufferTimestamp' = NoDate
    /\ lineNo' = 0
    /\ line' = ""
    /\ pc' = "lines"
    /\ UNCHANGED << idx, inputVars, usageBySession, sessionStateUsage,
                    reportVars, stateExtractorVars,
                    seenUsageBySessionAndResponse, usageRecords >>

\* the start of one iteration of "for (const filePath of logFiles)"
LogFileOpen ==
    /\ pc = "logs"
    /\ \E path \in logFiles :
          /\ ComesFirst(path, logFiles)
          /\ logFiles' = logFiles \ {path}
          /\ logFilePath' = path
          /\ fileSessionId' = FileSessionId(path)
          /\ currentSessionId' = FileSessionId(path)
    /\ jsonBuffer' = << >>
    /\ jsonBufferSessionId' = NULL
    /\ jsonBufferTimestamp' = NoDate
    /\ lineNo' = 0
    /\ line' = ""
    /\ pc' = "lines"
    /\ UNCHANGED << idx, inputVars, usageBySession, sessionStateUsage,
                    reportVars, stateExtractorVars,
                    seenUsageBySessionAndResponse, usageRecords >>

ReadContinuationDropped(l) ==
    /\ jsonBuffer' = jsonBuffer
    /\ UNCHANGED << usageBySession, seenUsageBySessionAndResponse, usageRecords,
                    currentSessionId, jsonBufferSessionId, jsonBufferTimestamp >>

\* a line without the prefix: it joins the open buffer, if there is one
ReadContinuation(l) ==
    /\ jsonBuffer' = IF jsonBuffer # << >> THEN Append(jsonBuffer, l) ELSE jsonBuffer
    /\ UNCHANGED << usageBySession, seenUsageBySessionAndResponse, usageRecords,
                    currentSessionId, jsonBufferSessionId, jsonBufferTimestamp >>

\* a prefixed line, the captured session id and timestamp of the finalized
\* buffer left in place
ReadPayloadKeepingCaptured(payloadLine, finalizes, after, context, opens, timestamp) ==
    /\ usageBySession' = after.usageBySession
    /\ seenUsageBySessionAndResponse' = after.seen
    /\ usageRecords' = after.usageRecords
    /\ currentSessionId' = context
    /\ jsonBuffer' = IF opens THEN << payloadLine >> ELSE << >>
    /\ jsonBufferSessionId' = IF opens THEN context ELSE jsonBufferSessionId
    /\ jsonBufferTimestamp' =
           IF opens THEN IF timestamp = InvalidDate THEN NoDate ELSE timestamp
           ELSE jsonBufferTimestamp

\* a prefixed line, after the open buffer is finalized: opens is that the
\* line opens a buffer, context the session context after the line
ReadPayload(payloadLine, finalizes, after, context, opens, timestamp) ==
    /\ usageBySession' = after.usageBySession
    /\ seenUsageBySessionAndResponse' = after.seen
    /\ usageRecords' = after.usageRecords
    /\ currentSessionId' = context
    /\ jsonBuffer' = IF opens THEN << payloadLine >> ELSE << >>
    /\ jsonBufferSessionId' =
           IF opens THEN context
           ELSE IF finalizes THEN NULL
           ELSE jsonBufferSessionId
    /\ jsonBufferTimestamp' =
           IF opens THEN IF timestamp = InvalidDate THEN NoDate ELSE timestamp
           ELSE IF finalizes THEN NoDate
           ELSE jsonBufferTimestamp

ReadPrefixedOpeningAtAnyBrace(prefixMatch, sessionMatch) ==
    ReadPayload(prefixMatch.payload,
                jsonBuffer # << >>,
                IF jsonBuffer # << >> THEN finalizeJsonBuffer ELSE Kept,
                IF sessionMatch # NULL THEN sessionMatch ELSE currentSessionId,
                IndexOf(prefixMatch.payload, "{", 1) > 0,
                DateFromTimestamp(prefixMatch.timestamp))

\* a prefixed line
ReadPrefixed(prefixMatch, sessionMatch) ==
    ReadPayload(prefixMatch.payload,
                jsonBuffer # << >>,
                IF jsonBuffer # << >> THEN finalizeJsonBuffer ELSE Kept,
                IF sessionMatch # NULL THEN sessionMatch ELSE currentSessionId,
                At(TrimStart(prefixMatch.payload), 1) = "{",
                DateFromTimestamp(prefixMatch.timestamp))

ReadLine(l, prefixMatch) ==
    IF prefixMatch.matched
    THEN ReadPrefixed(prefixMatch, SESSION_CONTEXT_PATTERN(prefixMatch.payload))
    ELSE ReadContinuation(l)

\* the body of "for await (const line of rl)" for one line
LogLine ==
    /\ pc = "lines"
    /\ \E l \in NextLines(logFileContents, logFilePath, lineNo, MaxLogLines,
                          LogLineSamples) :
          /\ line' = l
          /\ lineNo' = lineNo + 1
          /\ ReadLine(l, LOG_PREFIX_PATTERN(l))
    /\ UNCHANGED << pc, idx, inputVars, sessionStateUsage, reportVars,
                    stateExtractorVars, logFiles, logFilePath, fileSessionId >>

FileEndFinalize(after) ==
    /\ usageBySession' = after.usageBySession
    /\ seenUsageBySessionAndResponse' = after.seen
    /\ usageRecords' = after.usageRecords

\* the end of the file: the buffer that is still open is finalized
LogFileEnd ==
    /\ pc = "lines"
    /\ AtEnd(logFileContents, logFilePath, lineNo)
    /\ FileEndFinalize(IF jsonBuffer # << >> THEN finalizeJsonBuffer ELSE Kept)
    /\ jsonBuffer' = << >>
    /\ jsonBufferSessionId' = IF jsonBuffer # << >> THEN NULL ELSE jsonBufferSessionId
    /\ jsonBufferTimestamp' = IF jsonBuffer # << >> THEN NoDate ELSE jsonBufferTimestamp
    /\ pc' = "logs"
    /\ UNCHANGED << idx, inputVars, sessionStateUsage, reportVars,
                    stateExtractorVars, logFiles, logFilePath, lineNo, line,
                    fileSessionId, currentSessionId >>

\* analyzeUsageLogFiles returns usageBySession; the session-state files follow
LogFilesDone ==
    /\ pc = "logs"
    /\ logFiles = {}
    /\ pc' = "state"
    /\ UNCHANGED << idx, inputVars, usageBySession, sessionStateUsage,
                    reportVars, stateExtractorVars, logExtractorVars >>

\* the usage-log extractor is not running
LogExtractorIdle ==
    /\ logFiles = {}
    /\ logFilePath = ""
    /\ lineNo = 0
    /\ line = ""
    /\ fileSessionId = NULL
    /\ currentSessionId = NULL
    /\ jsonBuffer = << >>
    /\ jsonBufferSessionId = NULL
    /\ jsonBufferTimestamp = NoDate
    /\ seenUsageBySessionAndResponse = {}
    /\ usageRecords = << >>

(***************************************************************************)
(* analyzeFiles: the loop over the session-state files                     *)
(***************************************************************************)
\* event.data of a line whose JSON has no data object, or one with none of the
\* fields that are read: in both cases the line leaves every local as it is
NoData == [startTime |-> NULL, sessionId |-> NULL, selectedModel |-> NULL,
           selectedMode |-> NULL, model |-> NULL,
           postTruncationTokensInMessages |-> 0, content |-> NULL,
           transformedContent |-> NULL]

\* a line of a session-state file: blank, not JSON, or a LogEvent.  In data,
\* NULL and 0 stand for a field that is absent (or empty, or 0: the
\* code tells none of them apart)
Line(kind, type, data) == [kind |-> kind, type |-> type, data |-> data]
Event(type, data) == Line("event", type, data)

\* s.replace(/\.jsonl$/i, '')
StripJsonlSuffix(s) ==
    IF Len(s) >= 6 /\ ToLowerCase(SubSeq(s, Len(s) - 5, Len(s))) = ".jsonl"
    THEN SubSeq(s, 1, Len(s) - 6)
    ELSE s

inferSessionIdFromSessionFile(path) ==
    LET fileName == Basename(path)
    IN  IF fileName = "events.jsonl" THEN Basename(Dirname(path))
        ELSE StripJsonlSuffix(fileName)

\* The texts of the model are written with one character per UTF-16 code
\* unit.  Four characters stand for the code units that are not ASCII: one of
\* U+0080..U+07FF (as of "e" with an accent), one of U+0800..U+FFFF that is no
\* surrogate (as of the euro sign), a high and a low surrogate (together one
\* code point from U+10000 on, as of an emoji).
TwoByteUnit == "@"
ThreeByteUnit == "$"
HighSurrogate == "<"
LowSurrogate == ">"

\* text.length
ByteLengthInCodeUnits(text) == Len(text)

\* Buffer.byteLength(text, 'utf8'): one byte per ASCII code unit, two and
\* three for the wider ones, four for a surrogate pair, three for a surrogate
\* that has no partner (it is encoded as U+FFFD)
ByteLength(text) ==
    LET wide == { i \in 1..Len(text) :
                    At(text, i) \in {TwoByteUnit, ThreeByteUnit,
                                     HighSurrogate, LowSurrogate} }
        paired == { i \in wide :
                      \/ At(text, i) = HighSurrogate /\ At(text, i + 1) = LowSurrogate
                      \/ At(text, i) = LowSurrogate /\ At(text, i - 1) = HighSurrogate }
        two == { i \in wide : At(text, i) = TwoByteUnit }
    IN  Len(text) + Cardinality(two) + Cardinality(paired)
        + 2 * Cardinality((wide \ two) \ paired)

estimateTokensFromTextUndivided(text) ==
    IF text = NULL \/ text = "" THEN 0
    ELSE ByteLength(text)

estimateTokensFromText(text) ==
    IF text = NULL \/ text = "" THEN 0
    ELSE (ByteLength(text) + 3) \div 4

\* a || b || c || d on strings, NULL being absent
FirstSet(a, b, c, d) ==
    IF a # NULL /\ a # "" THEN a
    ELSE IF b # NULL /\ b # "" THEN b
    ELSE IF c # NULL /\ c # "" THEN c
    ELSE d

\* the number of lines of a session-state file
MaxEvents == 3

StartTimes == << "2025-01-10T09:00:00.000Z", "2025-01-12T09:00:00Z", "soon" >>

LineSamples ==
    { Event("session.start", [NoData EXCEPT !.startTime = StartTimes[1]]),
      Event("session.start", [NoData EXCEPT !.startTime = StartTimes[2],
                                            !.sessionId = SessionIdList[2],
                                            !.selectedModel = "gpt-5"]),
      Event("session.start", [NoData EXCEPT !.startTime = StartTimes[3]]),
      Event("session.info", [NoData EXCEPT !.model = "claude-opus-4.5"]),
      Event("user.message", [NoData EXCEPT !.transformedContent = "123456789",
                                           !.content = "abc"]),
      Event("session.truncation", [NoData EXCEPT !.postTruncationTokensInMessages = 3]),
      Event("session.truncation", [NoData EXCEPT !.postTruncationTokensInMessages = 2]),
      Event("session.truncation", NoData),
      Event("session.truncation",
            [NoData EXCEPT !.postTruncationTokensInMessages = 0 - 4]),
      Event("user.message", [NoData EXCEPT !.content = "caf@ $ <>"]),
      Event("assistant.message", [NoData EXCEPT !.content = "abcde"]),
      Event("assistant.reasoning", [NoData EXCEPT !.content = "abc"]),
      Line("malformed", "", NoData) }

\* the paths findSessionLogFiles can return for one session
SessionFilePaths ==
    { "/session-state/" \o SessionIdList[1] \o ".jsonl",
      "/session-state/" \o SessionIdList[1] \o "/events.jsonl" }

\* the start of one iteration: the locals of the file
SessionFileOpen ==
    /\ pc = "state"
    /\ \E path \in files :
          /\ files' = files \ {path}
          /\ filePath' = path
          /\ sessionId' = inferSessionIdFromSessionFile(path)
    /\ eventsRead' = << >>
    /\ sessionDateObj' = NoDate
    /\ sessionInputTokensFromMessages' = 0
    /\ sessionInputTokensFromTruncationSum' = 0
    /\ sessionOutputTokens' = 0
    /\ sessionModel' = "default"
    /\ pc' = "events"
    /\ UNCHANGED << idx, inputVars, usageBySession, sessionStateUsage,
                    reportVars, sessionInputTokens, fileEstimates,
                    logExtractorVars >>

\* sessionInputTokensFromTruncationSum after a session.truncation record
TruncationAccumulate(sum, tokens) == sum + tokens

\* the body for one line, the first session.start record of the file keeping
\* the date and the session id
SessionEventReadKeepingFirst(event) ==
    /\ eventsRead' = Append(eventsRead, event)
    /\ IF event.kind # "event" \/ event.data = NoData
       THEN UNCHANGED << sessionDateObj, sessionId, sessionModel,
                         sessionInputTokensFromMessages,
                         sessionInputTokensFromTruncationSum,
                         sessionOutputTokens >>
       ELSE LET data    == event.data
                started == event.type = "session.start" /\ ~Falsy(data.startTime)
                hinted  == started \/ event.type = "session.info"
            IN  /\ sessionDateObj' = IF started /\ sessionDateObj = NoDate
                                     THEN DateFromString(data.startTime)
                                     ELSE sessionDateObj
                /\ sessionId' = IF /\ started /\ sessionDateObj = NoDate
                                   /\ data.sessionId # NULL /\ data.sessionId # ""
                                THEN data.sessionId ELSE sessionId
                /\ sessionModel' =
                       IF hinted
                       THEN FirstSet(data.selectedModel, data.selectedMode,
                                     data.model, sessionModel)
                       ELSE sessionModel
                /\ sessionInputTokensFromMessages' =
                       IF event.type = "user.message"
                       THEN sessionInputTokensFromMessages
                            + estimateTokensFromText(
                                  FirstSet(data.transformedContent, data.content, "", ""))
                       ELSE sessionInputTokensFromMessages
                /\ sessionInputTokensFromTruncationSum' =
                       IF event.type = "session.truncation"
                       THEN TruncationAccumulate(sessionInputTokensFromTruncationSum,
                                                 data.postTruncationTokensInMessages)
                       ELSE sessionInputTokensFromTruncationSum
                /\ sessionOutputTokens' =
                       IF event.type \in {"assistant.message", "assistant.reasoning"}
                       THEN sessionOutputTokens + estimateTokensFromText(data.content)
                       ELSE sessionOutputTokens

\* the body of "for await (const line of rl)" for one line
SessionEventRead(event) ==
    /\ eventsRead' = Append(eventsRead, event)
    /\ IF event.kind # "event" \/ event.data = NoData
       THEN UNCHANGED << sessionDateObj, sessionId, sessionModel,
                         sessionInputTokensFromMessages,
                         sessionInputTokensFromTruncationSum,
                         sessionOutputTokens >>
       ELSE LET data    == event.data
                started == event.type = "session.start" /\ ~Falsy(data.startTime)
                hinted  == started \/ event.type = "session.info"
            IN  /\ sessionDateObj' = IF started THEN DateFromString(data.startTime)
                                     ELSE sessionDateObj
                /\ sessionId' = IF started /\ data.sessionId # NULL /\ data.sessionId # ""
                                THEN data.sessionId ELSE sessionId
                /\ sessionModel' =
                       IF hinted
                       THEN FirstSet(data.selectedModel, data.selectedMode,
                                     data.model, sessionModel)
                       ELSE sessionModel
                /\ sessionInputTokensFromMessages' =
                       IF event.type = "user.message"
                       THEN sessionInputTokensFromMessages
                            + estimateTokensFromText(
                                  FirstSet(data.transformedContent, data.content, "", ""))
                       ELSE sessionInputTokensFromMessages
                /\ sessionInputTokensFromTruncationSum' =
                       IF event.type = "session.truncation"
                       THEN TruncationAccumulate(sessionInputTokensFromTruncationSum,
                                                 data.postTruncationTokensInMessages)
                       ELSE sessionInputTokensFromTruncationSum
                /\ sessionOutputTokens' =
                       IF event.type \in {"assistant.message", "assistant.reasoning"}
                       THEN sessionOutputTokens + estimateTokensFromText(data.content)
                       ELSE sessionOutputTokens

\* one line of the file is read
SessionEvent ==
    /\ pc = "events"
    /\ \E event \in NextLines(sessionFileContents, filePath, Len(eventsRead),
                              MaxEvents, LineSamples) :
          SessionEventRead(event)
    /\ UNCHANGED << pc, idx, inputVars, usageBySession, sessionStateUsage,
                    reportVars, files, filePath, sessionInputTokens,
                    fileEstimates, logExtractorVars >>

MergeSessionEstimateLatestDate(map, id, date, inputTokens, outputTokens, model) ==
    IF HasId(map, id)
    THEN [k \in 1..Len(map) |->
            IF map[k].id = id
            THEN [id           |-> id,
                  date         |-> date,
                  inputTokens  |-> map[k].inputTokens + inputTokens,
                  outputTokens |-> map[k].outputTokens + outputTokens,
                  model        |-> IF map[k].model = "default" /\ model # "default"
                                   THEN model ELSE map[k].model]
            ELSE map[k]]
    ELSE Append(map, [id |-> id, date |-> date, inputTokens |-> inputTokens,
                      outputTokens |-> outputTokens, model |-> model])

MergeSessionEstimateKeepingFirst(map, id, date, inputTokens, outputTokens, model) ==
    IF HasId(map, id)
    THEN map
    ELSE Append(map, [id |-> id, date |-> date, inputTokens |-> inputTokens,
                      outputTokens |-> outputTokens, model |-> model])

\* sessionStateUsage after the file's estimate is merged into it
MergeSessionEstimate(map, id, date, inputTokens, outputTokens, model) ==
    IF HasId(map, id)
    THEN [k \in 1..Len(map) |->
            IF map[k].id = id
            THEN [id           |-> id,
                  date         |-> IF DateLess(date, map[k].date) THEN date
                                   ELSE map[k].date,
                  inputTokens  |-> map[k].inputTokens + inputTokens,
                  outputTokens |-> map[k].outputTokens + outputTokens,
                  model        |-> IF map[k].model = "default" /\ model # "default"
                                   THEN model ELSE map[k].model]
            ELSE map[k]]
    ELSE Append(map, [id |-> id, date |-> date, inputTokens |-> inputTokens,
                      outputTokens |-> outputTokens, model |-> model])

\* the end of the file, the date checked for presence only
SessionFileEndAnyDate ==
    /\ pc = "events"
    /\ AtEnd(sessionFileContents, filePath, Len(eventsRead))
    /\ LET tokens == IF sessionInputTokensFromTruncationSum > 0
                     THEN sessionInputTokensFromTruncationSum
                     ELSE sessionInputTokensFromMessages
       IN  /\ sessionInputTokens' = tokens
           /\ sessionStateUsage' =
                  IF sessionDateObj # NoDate
                  THEN MergeSessionEstimate(sessionStateUsage, sessionId,
                                            sessionDateObj, tokens,
                                            sessionOutputTokens, sessionModel)
                  ELSE sessionStateUsage
           /\ fileEstimates' =
                  IF sessionDateObj # NoDate
                  THEN Append(fileEstimates,
                              [file |-> filePath, id |-> sessionId,
                               date |-> sessionDateObj, inputTokens |-> tokens,
                               outputTokens |-> sessionOutputTokens,
                               model |-> sessionModel])
                  ELSE fileEstimates
    /\ pc' = "state"
    /\ UNCHANGED << idx, inputVars, usageBySession, reportVars, files, filePath,
                    eventsRead, sessionDateObj, sessionId,
                    sessionInputTokensFromMessages,
                    sessionInputTokensFromTruncationSum, sessionOutputTokens,
                    sessionModel, logExtractorVars >>

\* the end of the file, any truncation sum but 0 taken as the input tokens
SessionFileEndAnySum ==
    /\ pc = "events"
    /\ AtEnd(sessionFileContents, filePath, Len(eventsRead))
    /\ LET tokens == IF sessionInputTokensFromTruncationSum # 0
                     THEN sessionInputTokensFromTruncationSum
                     ELSE sessionInputTokensFromMessages
       IN  /\ sessionInputTokens' = tokens
           /\ sessionStateUsage' =
                  IF sessionDateObj # NoDate /\ sessionDateObj # InvalidDate
                  THEN MergeSessionEstimate(sessionStateUsage, sessionId,
                                            sessionDateObj, tokens,
                                            sessionOutputTokens, sessionModel)
                  ELSE sessionStateUsage
           /\ fileEstimates' =
                  IF sessionDateObj # NoDate /\ sessionDateObj # InvalidDate
                  THEN Append(fileEstimates,
                              [file |-> filePath, id |-> sessionId,
                               date |-> sessionDateObj, inputTokens |-> tokens,
                               outputTokens |-> sessionOutputTokens,
                               model |-> sessionModel])
                  ELSE fileEstimates
    /\ pc' = "state"
    /\ UNCHANGED << idx, inputVars, usageBySession, reportVars, files, filePath,
                    eventsRead, sessionDateObj, sessionId,
                    sessionInputTokensFromMessages,
                    sessionInputTokensFromTruncationSum, sessionOutputTokens,
                    sessionModel, logExtractorVars >>

\* the end of the file: the estimate and its merge into sessionStateUsage
SessionFileEnd ==
    /\ pc = "events"
    /\ AtEnd(sessionFileContents, filePath, Len(eventsRead))
    /\ LET tokens == IF sessionInputTokensFromTruncationSum > 0
                     THEN sessionInputTokensFromTruncationSum
                     ELSE sessionInputTokensFromMessages
       IN  /\ sessionInputTokens' = tokens
           /\ sessionStateUsage' =
                  IF sessionDateObj # NoDate /\ sessionDateObj # InvalidDate
                  THEN MergeSessionEstimate(sessionStateUsage, sessionId,
                                            sessionDateObj, tokens,
                                            sessionOutputTokens, sessionModel)
                  ELSE sessionStateUsage
           /\ fileEstimates' =
                  IF sessionDateObj # NoDate /\ sessionDateObj # InvalidDate
                  THEN Append(fileEstimates,
                              [file |-> filePath, id |-> sessionId,
                               date |-> sessionDateObj, inputTokens |-> tokens,
                               outputTokens |-> sessionOutputTokens,
                               model |-> sessionModel])
                  ELSE fileEstimates
    /\ pc' = "state"
    /\ UNCHANGED << idx, inputVars, usageBySession, reportVars, files, filePath,
                    eventsRead, sessionDateObj, sessionId,
                    sessionInputTokensFromMessages,
                    sessionInputTokensFromTruncationSum, sessionOutputTokens,
                    sessionModel, logExtractorVars >>

\* the loop is over: on to the reconciliation
SessionFilesDone ==
    /\ pc = "state"
    /\ files = {}
    /\ pc' = "reconcile"
    /\ idx' = 1
    /\ UNCHANGED << inputVars, usageBySession, sessionStateUsage, reportVars,
                    stateExtractorVars, logExtractorVars >>

\* the session-state extractor is not running
StateExtractorIdle ==
    /\ files = {}
    /\ filePath = ""
    /\ eventsRead = << >>
    /\ sessionDateObj = NoDate
    /\ sessionId = ""
    /\ sessionInputTokensFromMessages = 0
    /\ sessionInputTokensFromTruncationSum = 0
    /\ sessionOutputTokens = 0
    /\ sessionModel = "default"
    /\ sessionInputTokens = 0
    /\ fileEstimates = << >>

\* findSessionLogFiles is not running
LogScanIdle ==
    /\ entryNo = 0
    /\ processLogs = << >>
    /\ uuidLogs = << >>
    /\ usageLogFiles = << >>

ScanIdle ==
    /\ dirEntries = << >>
    /\ unreadableDirs = {}
    /\ stack = << >>
    /\ eventsJsonl = << >>
    /\ topLevelJsonl = << >>
    /\ LogScanIdle

\* the environment of a run whose files are read as they come
EnvDefault ==
    /\ ScanIdle
    /\ utcOffset = 0
    /\ hasSessionDir = TRUE
    /\ hasLogDir = TRUE
    /\ sessionFileContents = << >>
    /\ logFileContents = << >>


(***************************************************************************)
(* analyzeFiles: the directories                                           *)
(***************************************************************************)
NoDirectoriesEither ==
    /\ pc = "start"
    /\ ~hasSessionDir \/ ~hasLogDir
    /\ pc' = "exit"
    /\ UNCHANGED << idx, inputVars, usageBySession, sessionStateUsage, reportVars,
                    stateExtractorVars, logExtractorVars >>

\* neither directory exists: process.exit(1)
NoDirectories ==
    /\ pc = "start"
    /\ ~hasSessionDir /\ ~hasLogDir
    /\ pc' = "exit"
    /\ UNCHANGED << idx, inputVars, usageBySession, sessionStateUsage, reportVars,
                    stateExtractorVars, logExtractorVars >>

\* the files of the directories that exist are listed; the usage logs are
\* analyzed first
ListFiles ==
    /\ pc = "start"
    /\ hasSessionDir \/ hasLogDir
    /\ files' = IF hasSessionDir THEN DOMAIN sessionFileContents ELSE {}
    /\ logFiles' = IF hasLogDir THEN DOMAIN logFileContents ELSE {}
    /\ pc' = "logs"
    /\ UNCHANGED << idx, inputVars, usageBySession, sessionStateUsage, reportVars,
                    sessionFileVars, fileEstimates, logFileVars,
                    seenUsageBySessionAndResponse, usageRecords >>

(***************************************************************************)
(* The usage-log extractor on its own                                      *)
(***************************************************************************)
InitLogs ==
    /\ pc = "logs"
    /\ idx = 1
    /\ rankByCost = FALSE
    /\ timeUnit = "day"
    /\ limit = Infinity
    /\ usageBySession = << >>
    /\ sessionStateUsage = << >>
    /\ sessionIdsFromState = {}
    /\ totalSessions = 0
    /\ totalInputTokens = 0
    /\ totalOutputTokens = 0
    /\ totalCost = 0
    /\ aggStats = << >>
    /\ reconciled = << >>
    /\ maxKey = ""
    /\ currentKey = ""
    /\ currentDate = NoDate
    /\ sortedKeys = << >>
    /\ StateExtractorIdle
    /\ logFiles \in (SUBSET LogFilePaths) \ {{}}
    /\ logFilePath = ""
    /\ lineNo = 0
    /\ line = ""
    /\ fileSessionId = NULL
    /\ currentSessionId = NULL
    /\ jsonBuffer = << >>
    /\ jsonBufferSessionId = NULL
    /\ jsonBufferTimestamp = NoDate
    /\ seenUsageBySessionAndResponse = {}
    /\ usageRecords = << >>
    /\ EnvDefault

NextLogs ==
    \/ LogFileOpen
    \/ LogLine
    \/ LogFileEnd
    \/ LogFilesDone

SpecLogs == InitLogs /\ [][NextLogs]_vars

(***************************************************************************)
(* The session-state extractor on its own                                  *)
(***************************************************************************)
InitState ==
    /\ pc = "state"
    /\ idx = 1
    /\ rankByCost = FALSE
    /\ timeUnit = "day"
    /\ limit = Infinity
    /\ usageBySession = << >>
    /\ sessionStateUsage = << >>
    /\ sessionIdsFromState = {}
    /\ totalSessions = 0
    /\ totalInputTokens = 0
    /\ totalOutputTokens = 0
    /\ totalCost = 0
    /\ aggStats = << >>
    /\ reconciled = << >>
    /\ maxKey = ""
    /\ currentKey = ""
    /\ currentDate = NoDate
    /\ sortedKeys = << >>
    /\ files \in (SUBSET SessionFilePaths) \ {{}}
    /\ filePath = ""
    /\ eventsRead = << >>
    /\ sessionDateObj = NoDate
    /\ sessionId = ""
    /\ sessionInputTokensFromMessages = 0
    /\ sessionInputTokensFromTruncationSum = 0
    /\ sessionOutputTokens = 0
    /\ sessionModel = "default"
    /\ sessionInputTokens = 0
    /\ fileEstimates = << >>
    /\ LogExtractorIdle
    /\ EnvDefault

NextState ==
    \/ SessionFileOpen
    \/ SessionEvent
    \/ SessionFileEnd
    \/ SessionFilesDone

SpecState == InitState /\ [][NextState]_vars

(***************************************************************************)
(* findSessionLogFiles                                                     *)
(***************************************************************************)
\* an entry of a directory: kind is "file", "directory" or "other" (a link, a
\* socket: neither isDirectory() nor isFile())
Entry(name, kind) == [name |-> name, kind |-> kind]

\* path.join(currentDir, entry.name)
PathJoin(dir, name) == dir \o "/" \o name

\* entry.name.endsWith('.jsonl')
EndsWithJsonl(name) ==
    Len(name) >= 6 /\ SubSeq(name, Len(name) - 5, Len(name)) = ".jsonl"

\* the directories among the entries, as they are pushed on the stack
RECURSIVE PushDirectories(_, _, _)
PushDirectories(dirs, currentDir, entries) ==
    IF Len(entries) = 0 THEN dirs
    ELSE PushDirectories(
             IF entries[1].kind = "directory"
             THEN Append(dirs, PathJoin(currentDir, entries[1].name)) ELSE dirs,
             currentDir, Tail(entries))

\* the files among the entries that the test keeps, as they are pushed
\* events is TRUE for eventsJsonl, FALSE for topLevelJsonl
Keeps(name, events) ==
    IF events THEN name = "events.jsonl"
    ELSE name # "events.jsonl" /\ EndsWithJsonl(name)

RECURSIVE PushFiles(_, _, _, _)
PushFiles(found, currentDir, entries, events) ==
    IF Len(entries) = 0 THEN found
    ELSE PushFiles(
             IF entries[1].kind = "file" /\ Keeps(entries[1].name, events)
             THEN Append(found, PathJoin(currentDir, entries[1].name)) ELSE found,
             currentDir, Tail(entries), events)

\* one iteration of "while (stack.length > 0)": the directory on top of the
\* stack is read, or skipped if it cannot be read
ScanDirectory ==
    /\ pc = "scan"
    /\ Len(stack) > 0
    /\ LET currentDir == stack[Len(stack)]
           popped     == SubSeq(stack, 1, Len(stack) - 1)
       IN  IF currentDir \in unreadableDirs \/ currentDir \notin DOMAIN dirEntries
           THEN /\ stack' = popped
                /\ UNCHANGED << eventsJsonl, topLevelJsonl >>
           ELSE /\ stack' = PushDirectories(popped, currentDir, dirEntries[currentDir])
                /\ eventsJsonl' = PushFiles(eventsJsonl, currentDir,
                                            dirEntries[currentDir], TRUE)
                /\ topLevelJsonl' = PushFiles(topLevelJsonl, currentDir,
                                              dirEntries[currentDir], FALSE)
    /\ UNCHANGED << pc, idx, configVars, envVars, dirEntries, unreadableDirs,
                    logScanVars, usageBySession, sessionStateUsage, reportVars,
                    stateExtractorVars, logExtractorVars >>

ScanResultPreferringEvents ==
    IF Len(eventsJsonl) > 0 THEN eventsJsonl ELSE topLevelJsonl

\* return [...topLevelJsonl, ...eventsJsonl]
ScanResult == topLevelJsonl \o eventsJsonl

\* the stack is empty: the result is the list of files of the analysis
ScanDone ==
    /\ pc = "scan"
    /\ Len(stack) = 0
    /\ files' = SeqToSet(ScanResult)
    /\ pc' = "scanned"
    /\ UNCHANGED << idx, inputVars, usageBySession, sessionStateUsage, reportVars,
                    sessionFileVars, fileEstimates, logExtractorVars >>

\* the root of the session-state directory and the directories under it
SESSION_DIR == "/session-state"
ScanDirs == << SESSION_DIR, SESSION_DIR \o "/a", SESSION_DIR \o "/a/b" >>

\* the entries a directory can have besides its subdirectory
EntrySamples ==
    << Entry("events.jsonl", "file"), Entry("s1.jsonl", "file"),
       Entry("notes.txt", "file"), Entry("link.jsonl", "other") >>

\* the entries of the directory of depth k: the chosen samples, and the
\* directory below it if the tree goes deeper
EntriesOf(chosen, k, depth) ==
    SelectSeq(EntrySamples, LAMBDA e : e \in chosen)
        \o (IF k < depth
            THEN << Entry(IF k = 1 THEN "a" ELSE "b", "directory") >> ELSE << >>)

InitScan ==
    /\ pc = "scan"
    /\ idx = 1
    /\ rankByCost = FALSE
    /\ timeUnit = "day"
    /\ limit = Infinity
    /\ usageBySession = << >>
    /\ sessionStateUsage = << >>
    /\ sessionIdsFromState = {}
    /\ totalSessions = 0
    /\ totalInputTokens = 0
    /\ totalOutputTokens = 0
    /\ totalCost = 0
    /\ aggStats = << >>
    /\ reconciled = << >>
    /\ maxKey = ""
    /\ currentKey = ""
    /\ currentDate = NoDate
    /\ sortedKeys = << >>
    /\ StateExtractorIdle
    /\ LogExtractorIdle
    /\ utcOffset = 0
    /\ hasSessionDir = TRUE
    /\ hasLogDir = TRUE
    /\ sessionFileContents = << >>
    /\ logFileContents = << >>
    /\ \E depth \in 1..Len(ScanDirs) :
       \E chosen \in [1..depth -> SUBSET SeqToSet(EntrySamples)] :
          dirEntries = [d \in { ScanDirs[k] : k \in 1..depth } |->
                           EntriesOf(chosen[CHOOSE k \in 1..depth : ScanDirs[k] = d],
                                     CHOOSE k \in 1..depth : ScanDirs[k] = d, depth)]
    /\ unreadableDirs \in SUBSET SeqToSet(ScanDirs)
    /\ stack = << SESSION_DIR >>
    /\ eventsJsonl = << >>
    /\ topLevelJsonl = << >>
    /\ LogScanIdle

NextScan ==
    \/ ScanDirectory
    \/ ScanDone

SpecScan == InitScan /\ [][NextScan]_vars

(***************************************************************************)
(* findCopilotUsageLogFiles                                                *)
(***************************************************************************)
\* the usage-log directory
LOG_DIR == "/logs"

\* the start: no directory, or one that readdirSync fails on, gives []
FindLogsList ==
    /\ pc = "logscan"
    /\ IF LOG_DIR \notin DOMAIN dirEntries \/ LOG_DIR \in unreadableDirs
       THEN /\ usageLogFiles' = << >>
            /\ logFiles' = {}
            /\ pc' = "logscanned"
            /\ UNCHANGED << entryNo, processLogs, uuidLogs >>
       ELSE /\ entryNo' = 1
            /\ processLogs' = << >>
            /\ uuidLogs' = << >>
            /\ pc' = "logentries"
            /\ UNCHANGED << usageLogFiles, logFiles >>
    /\ UNCHANGED << idx, configVars, envVars, dirEntries, unreadableDirs, stack,
                    eventsJsonl, topLevelJsonl, usageBySession, sessionStateUsage,
                    reportVars, stateExtractorVars, logFileVars,
                    seenUsageBySessionAndResponse, usageRecords >>

\* one iteration of "for (const entry of entries)"
FindLogsEntry ==
    /\ pc = "logentries"
    /\ entryNo <= Len(dirEntries[LOG_DIR])
    /\ LET entry == dirEntries[LOG_DIR][entryNo]
       IN  /\ processLogs' =
                  IF entry.kind = "file" /\ PROCESS_LOG_FILE_PATTERN(entry.name)
                  THEN Append(processLogs, PathJoin(LOG_DIR, entry.name))
                  ELSE processLogs
           /\ uuidLogs' =
                  IF /\ entry.kind = "file"
                     /\ ~PROCESS_LOG_FILE_PATTERN(entry.name)
                     /\ UUID_LOG_FILE_PATTERN(entry.name)
                  THEN Append(uuidLogs, PathJoin(LOG_DIR, entry.name))
                  ELSE uuidLogs
    /\ entryNo' = entryNo + 1
    /\ UNCHANGED << pc, idx, configVars, envVars, dirEntries, unreadableDirs, stack,
                    eventsJsonl, topLevelJsonl, usageLogFiles, usageBySession,
                    sessionStateUsage, reportVars, stateExtractorVars,
                    logExtractorVars >>

\* the paths as they are listed
SortPathsOmitted(paths) == paths

\* Array.prototype.sort() without a comparator, on paths: ascending in the
\* order of the UTF-16 code units
RECURSIVE InsertPath(_, _)
InsertPath(sorted, x) ==
    IF Len(sorted) = 0 THEN << x >>
    ELSE IF StrLess(x, sorted[Len(sorted)])
         THEN Append(InsertPath(SubSeq(sorted, 1, Len(sorted) - 1), x),
                     sorted[Len(sorted)])
         ELSE Append(sorted, x)

RECURSIVE SortPathsFrom(_, _)
SortPathsFrom(paths, n) ==
    IF n = 0 THEN << >> ELSE InsertPath(SortPathsFrom(paths, n - 1), paths[n])

SortPaths(paths) == SortPathsFrom(paths, Len(paths))

\* the end of the loop: the two lists are sorted and returned, the process
\* logs first
FindLogsReturn ==
    /\ pc = "logentries"
    /\ entryNo > Len(dirEntries[LOG_DIR])
    /\ usageLogFiles' = SortPaths(processLogs) \o SortPaths(uuidLogs)
    /\ logFiles' = SeqToSet(SortPaths(processLogs) \o SortPaths(uuidLogs))
    /\ pc' = "logscanned"
    /\ UNCHANGED << idx, configVars, envVars, dirEntries, unreadableDirs, stack,
                    eventsJsonl, topLevelJsonl, entryNo, processLogs, uuidLogs,
                    usageBySession, sessionStateUsage, reportVars,
                    stateExtractorVars, logFileVars,
                    seenUsageBySessionAndResponse, usageRecords >>

\* the entries the usage-log directory can have
LogEntrySamples ==
    { Entry("process-2.log", "file"), Entry("process-10.log", "file"),
      Entry("PROCESS-1.LOG", "file"), Entry("process-3.log", "directory"),
      Entry(SessionIdList[1] \o ".log", "file"),
      Entry(SessionIdList[2] \o ".log", "file"),
      Entry("notes.txt", "file") }

\* the listings of a set of entries: every order of them
Listings(entries) ==
    { q \in [1..Cardinality(entries) -> entries] :
        \A i, j \in DOMAIN q : i # j => q[i] # q[j] }

InitLogScan ==
    /\ pc = "logscan"
    /\ idx = 1
    /\ rankByCost = FALSE
    /\ timeUnit = "day"
    /\ limit = Infinity
    /\ usageBySession = << >>
    /\ sessionStateUsage = << >>
    /\ sessionIdsFromState = {}
    /\ totalSessions = 0
    /\ totalInputTokens = 0
    /\ totalOutputTokens = 0
    /\ totalCost = 0
    /\ aggStats = << >>
    /\ reconciled = << >>
    /\ maxKey = ""
    /\ currentKey = ""
    /\ currentDate = NoDate
    /\ sortedKeys = << >>
    /\ StateExtractorIdle
    /\ LogExtractorIdle
    /\ utcOffset = 0
    /\ hasSessionDir = TRUE
    /\ hasLogDir = TRUE
    /\ sessionFileContents = << >>
    /\ logFileContents = << >>
    /\ \/ dirEntries = << >>
       \/ \E entries \in SUBSET LogEntrySamples :
          \E listing \in Listings(entries) :
             dirEntries = [d \in {LOG_DIR} |-> listing]
    /\ unreadableDirs \in SUBSET {LOG_DIR}
    /\ stack = << >>
    /\ eventsJsonl = << >>
    /\ topLevelJsonl = << >>
    /\ LogScanIdle

NextLogScan ==
    \/ FindLogsList
    \/ FindLogsEntry
    \/ FindLogsReturn

SpecLogScan == InitLogScan /\ [][NextLogScan]_vars

(***************************************************************************)
(* The whole run, on directories whose files are fixed from the start      *)
(***************************************************************************)
RECURSIVE Repeat(_, _)
Repeat(c, n) ==
    IF n = 0 THEN ""
    ELSE IF n % 2 = 0 THEN LET half == Repeat(c, n \div 2) IN half \o half
    ELSE c \o Repeat(c, n - 1)

Start(startTime, id, model) ==
    Event("session.start", [NoData EXCEPT !.startTime = startTime,
                                          !.sessionId = id,
                                          !.selectedModel = model])
Truncation(tokens) ==
    Event("session.truncation", [NoData EXCEPT !.postTruncationTokensInMessages = tokens])
UserMessage(text) == Event("user.message", [NoData EXCEPT !.content = text])
AssistantMessage(text) == Event("assistant.message", [NoData EXCEPT !.content = text])

\* the contents a session-state file can have
SessionContents ==
    << << Start("2025-06-01T10:00:00Z", SessionIdList[1], NULL),
          Truncation(1000),
          AssistantMessage(Repeat("a", 400)) >>,
       << Start("2025-05-30T08:00:00Z", NULL, NULL),
          Event("session.info", [NoData EXCEPT !.model = "claude-opus-4.5"]),
          UserMessage("123456789"),
          Line("malformed", "", NoData),
          Event("assistant.reasoning", [NoData EXCEPT !.content = "abc"]) >>,
       << Start("2025-06-02T23:00:00Z", SessionIdList[2], "gpt-5"),
          Truncation(3),
          Truncation(2) >>,
       << Start("2025-06-01T05:00:00Z", NULL, "gpt-5.2"),
          AssistantMessage("abcde") >>,
       << UserMessage("123456789"),
          Event("session.truncation", NoData) >> >>

RunSessionPaths ==
    << "/session-state/" \o SessionIdList[1] \o ".jsonl",
       "/session-state/" \o SessionIdList[1] \o "/events.jsonl" >>

LogPrefix(timestamp, level) == timestamp \o " [" \o level \o "] "

Usage(promptTokens, completionTokens) ==
    "\"usage\":{\"prompt_tokens\":" \o NumToStr(promptTokens)
        \o ",\"completion_tokens\":" \o NumToStr(completionTokens) \o "}"

\* the contents a usage-log file can have
LogContents ==
    << << LogPrefix("2025-06-01T11:00:00Z", "INFO")
              \o "Workspace initialized: " \o SessionIdList[1],
          LogPrefix("2025-06-01T11:30:00.250Z", "DEBUG")
              \o "{\"id\":\"r1\"," \o Usage(100, 50) \o ",\"model\":\"gpt-5\"}",
          LogPrefix("2025-06-01T11:31:00Z", "INFO") \o "Request completed" >>,
       << LogPrefix("2025-06-01T09:00:00Z", "DEBUG")
              \o "{\"id\":\"r1\"," \o Usage(100, 50) \o ",\"model\":\"gpt-5\"}",
          LogPrefix("2025-06-01T09:05:00Z", "INFO")
              \o "Resuming session " \o SessionIdList[4] >>,
       << LogPrefix("2025-06-03T11:55:00Z", "DEBUG")
              \o "{\"id\":\"r3\",\"usage\":{\"prompt_tokens\":\"many\"}}",
          LogPrefix("2025-06-03T12:00:00Z", "DEBUG") \o "{",
          "  \"responseId\":\"r2\",\"session_id\":\"" \o SessionIdList[3] \o "\",",
          "  " \o Usage(40, 20),
          "}",
          LogPrefix("2025-06-03T12:06:00Z", "DEBUG") \o "{\"id\":\"r4\",",
          "  " \o Usage(9, 9) >>,
       << LogPrefix("2025-06-01T12:00:00Z", "DEBUG")
              \o "{\"id\":\"r5\",\"sessionId\":\"not-a-uuid\"," \o Usage(11, 5) \o "}",
          LogPrefix("2025-06-01T12:01:00Z", "DEBUG") \o "{" \o Usage(7, 3) \o "}",
          LogPrefix("2025-06-01T12:02:00Z", "DEBUG") \o "{" \o Usage(7, 3) \o "}" >>,
       << LogPrefix("2025-06-04T07:00:00Z", "INFO")
              \o "Resuming session " \o SessionIdList[4],
          LogPrefix("2025-06-04T07:01:00Z", "DEBUG")
              \o "{\"id\":\"r6\"," \o Usage(21, 8) \o "}",
          LogPrefix("2025-06-04T07:02:00Z", "DEBUG")
              \o "{\"id\":\"r7\",\"sessionId\":\"" \o SessionIdList[3] \o "\","
              \o Usage(30, 10) \o "}" >> >>

RunLogPaths ==
    << "/logs/process-1.log", "/logs/" \o SessionIdList[1] \o ".log" >>

\* the local time zones of the runs
UtcOffsets == {0 - 11, 0, 14}

\* a directory: choice[i] = 0 leaves paths[i] out, choice[i] = k > 0 gives it
\* the k-th content
Directory(paths, contents, choice) ==
    [p \in { paths[i] : i \in { j \in 1..Len(paths) : choice[j] > 0 } } |->
        contents[choice[CHOOSE i \in 1..Len(paths) : paths[i] = p]]]

InitRun ==
    /\ pc = "start"
    /\ idx = 1
    /\ rankByCost = FALSE
    /\ timeUnit = "day"
    /\ limit = Infinity
    /\ usageBySession = << >>
    /\ sessionStateUsage = << >>
    /\ sessionIdsFromState = {}
    /\ totalSessions = 0
    /\ totalInputTokens = 0
    /\ totalOutputTokens = 0
    /\ totalCost = 0
    /\ aggStats = << >>
    /\ reconciled = << >>
    /\ maxKey = ""
    /\ currentKey = ""
    /\ currentDate = NoDate
    /\ sortedKeys = << >>
    /\ StateExtractorIdle
    /\ LogExtractorIdle
    /\ ScanIdle
    /\ utcOffset \in UtcOffsets
    /\ hasSessionDir \in BOOLEAN
    /\ hasLogDir \in BOOLEAN
    /\ \E choice \in [1..Len(RunSessionPaths) -> 0..Len(SessionContents)] :
          /\ ~hasSessionDir => \A i \in DOMAIN choice : choice[i] = 0
          /\ sessionFileContents = Directory(RunSessionPaths, SessionContents, choice)
    /\ \E choice \in [1..Len(RunLogPaths) -> 0..Len(LogContents)] :
          /\ ~hasLogDir => \A i \in DOMAIN choice : choice[i] = 0
          /\ logFileContents = Directory(RunLogPaths, LogContents, choice)

NextRun ==
    \/ NoDirectories
    \/ ListFiles
    \/ LogFileOpen
    \/ LogLine
    \/ LogFileEnd
    \/ LogFilesDone
    \/ SessionFileOpen
    \/ SessionEvent
    \/ SessionFileEnd
    \/ SessionFilesDone
    \/ ReconcileSession
    \/ ReconcileDone
    \/ StandaloneSession
    \/ StandaloneDone
    \/ GapFillStart
    \/ GapFillStep
    \/ GapFillEnd
    \/ SortKeys
    \/ ApplyLimit

SpecRun == InitRun /\ [][NextRun]_vars

(***************************************************************************)
(* Inputs of the reconciliation stage                                      *)
(***************************************************************************)
\* number of distinct session ids in a run
MaxSessions == 2

SessionIds == { SessionIdList[i] : i \in 1..MaxSessions }

\* three session dates per unit, leaving one empty bucket between the first
\* two and one across the turn of the year between the last two
DateSamples(unit) ==
    IF unit = "month"
    THEN << Date(2024, 10, 31, 5), Date(2024, 12, 15, 12), Date(2025, 2, 1, 0) >>
    ELSE IF unit = "hour"
    THEN << Date(2024, 12, 31, 21), Date(2024, 12, 31, 23), Date(2025, 1, 1, 1) >>
    ELSE << Date(2024, 12, 29, 10), Date(2024, 12, 31, 23), Date(2025, 1, 2, 0) >>

TimeUnits == {"day", "month", "hour"}

\* --rank without --limit gives 10, no --rank gives Infinity; --limit n needs n > 1
Configs ==
    { c \in [rankByCost : BOOLEAN, limit : {Infinity, 2, 10}] :
        /\ (c.limit = Infinity) => ~c.rankByCost
        /\ (c.limit = 10) => c.rankByCost }

\* what the session-state files can leave for one session id
StateChoices(unit) ==
    { [present |-> FALSE, date |-> NoDate, inputTokens |-> 0, outputTokens |-> 0,
       model |-> "default"] }
    \cup
    { [present |-> TRUE, date |-> c[1], inputTokens |-> 500, outputTokens |-> 200,
       model |-> c[2]] :
        c \in { << DateSamples(unit)[1], "default" >>,
                << DateSamples(unit)[1], "gpt-5" >>,
                << DateSamples(unit)[3], "default" >> } }

\* what the usage logs can leave for one session id
UsageChoices(unit) ==
    { [present |-> FALSE, timestamp |-> NoDate, inputTokens |-> 0,
       outputTokens |-> 0, model |-> "default"] }
    \cup
    { [present |-> TRUE, timestamp |-> c[1], inputTokens |-> 120, outputTokens |-> 80,
       model |-> c[2]] :
        c \in { << NoDate, "claude-opus-4.5" >>,
                << DateSamples(unit)[2], "default" >>,
                << DateSamples(unit)[2], "claude-opus-4.5" >> } }

RECURSIVE StateMapFrom(_, _)
StateMapFrom(f, i) ==
    IF i > MaxSessions THEN << >>
    ELSE LET c == f[SessionIdList[i]]
         IN  (IF c.present
              THEN << [id |-> SessionIdList[i], date |-> c.date,
                       inputTokens |-> c.inputTokens,
                       outputTokens |-> c.outputTokens, model |-> c.model] >>
              ELSE << >>) \o StateMapFrom(f, i + 1)

RECURSIVE UsageMapFrom(_, _)
UsageMapFrom(f, i) ==
    IF i > MaxSessions THEN << >>
    ELSE LET c == f[SessionIdList[i]]
         IN  (IF c.present
              THEN << [id |-> SessionIdList[i], inputTokens |-> c.inputTokens,
                       outputTokens |-> c.outputTokens, model |-> c.model,
                       timestamp |-> c.timestamp] >>
              ELSE << >>) \o UsageMapFrom(f, i + 1)

\* analyzeFiles between the two extractors and the reconciliation loops
Init ==
    /\ pc = "reconcile"
    /\ idx = 1
    /\ timeUnit \in TimeUnits
    /\ \E c \in Configs : rankByCost = c.rankByCost /\ limit = c.limit
    /\ \E f \in [SessionIds -> StateChoices(timeUnit)] :
           sessionStateUsage = StateMapFrom(f, 1)
    /\ \E g \in [SessionIds -> UsageChoices(timeUnit)] :
           usageBySession = UsageMapFrom(g, 1)
    /\ sessionIdsFromState = {}
    /\ totalSessions = 0
    /\ totalInputTokens = 0
    /\ totalOutputTokens = 0
    /\ totalCost = 0
    /\ aggStats = << >>
    /\ reconciled = << >>
    /\ maxKey = ""
    /\ currentKey = ""
    /\ currentDate = NoDate
    /\ sortedKeys = << >>
    /\ StateExtractorIdle
    /\ LogExtractorIdle
    /\ EnvDefault

Next ==
    \/ ReconcileSession
    \/ ReconcileDone
    \/ StandaloneSession
    \/ StandaloneDone
    \/ GapFillStart
    \/ GapFillStep
    \/ GapFillEnd
    \/ SortKeys
    \/ ApplyLimit

Spec == Init /\ [][Next]_vars

(***************************************************************************)
(* Properties of reconciliation and aggregation                            *)
(***************************************************************************)
RECURSIVE SumField(_, _)
SumField(q, f) ==
    IF Len(q) = 0 THEN 0 ELSE q[1][f] + SumField(SubSeq(q, 2, Len(q)), f)

\* the addSessionUsage calls made for a session id
CallsFor(id) == { k \in 1..Len(reconciled) : reconciled[k].sessionId = id }

LoopsDone == pc \notin {"reconcile", "standalone"}
GapFillDone == pc \in {"sort", "limit", "report"}

\* what the precedence law gives a session of the session-state results
LawTokens(id) ==
    IF HasId(usageBySession, id)
    THEN [input  |-> GetById(usageBySession, id).inputTokens,
          output |-> GetById(usageBySession, id).outputTokens]
    ELSE [input  |-> GetById(sessionStateUsage, id).inputTokens,
          output |-> GetById(sessionStateUsage, id).outputTokens]

RECURSIVE LawTotal(_, _)
LawTotal(map, f) ==
    IF Len(map) = 0 THEN 0
    ELSE LawTokens(map[1].id)[f] + LawTotal(SubSeq(map, 2, Len(map)), f)

\* C1 (precedence law): every session of the session-state results is added
\* with exactly the authoritative token sums when the usage logs have a record
\* for its id, and with exactly its estimate otherwise; when the loop over the
\* session-state results ends, the totals and the buckets hold those tokens
\* and nothing else.
PrecedenceLaw ==
    /\ \A k \in 1..Len(reconciled) :
          reconciled[k].sessionId \in IdsOf(sessionStateUsage) =>
              /\ reconciled[k].inputTokens = LawTokens(reconciled[k].sessionId).input
              /\ reconciled[k].outputTokens = LawTokens(reconciled[k].sessionId).output
    /\ (pc = "standalone" /\ idx = 1) =>
          /\ \A id \in IdsOf(sessionStateUsage) : Cardinality(CallsFor(id)) = 1
          /\ totalInputTokens = LawTotal(sessionStateUsage, "input")
          /\ totalOutputTokens = LawTotal(sessionStateUsage, "output")
          /\ SumField(aggStats, "input") = LawTotal(sessionStateUsage, "input")
          /\ SumField(aggStats, "output") = LawTotal(sessionStateUsage, "output")

\* a session with an estimate of (500, 200) and authoritative usage of (120, 80)
\* was added, and so was a session that has only its estimate
PrecedenceWitness ==
    /\ pc = "standalone"
    /\ idx = 1
    /\ \E k \in 1..Len(reconciled) :
          /\ HasId(usageBySession, reconciled[k].sessionId)
          /\ GetById(sessionStateUsage, reconciled[k].sessionId).inputTokens = 500
          /\ reconciled[k].inputTokens = 120
          /\ reconciled[k].outputTokens = 80
    /\ \E k \in 1..Len(reconciled) : ~HasId(usageBySession, reconciled[k].sessionId)

\* C3 (reconciled model), as claimed: a session with both an estimate and
\* authoritative usage is priced with the authoritative model if the
\* estimate's model is "default", and with the estimate's own model otherwise.
ReconciledModelAsClaimed ==
    \A k \in 1..Len(reconciled) :
        LET id == reconciled[k].sessionId
        IN  (HasId(sessionStateUsage, id) /\ HasId(usageBySession, id)) =>
                reconciled[k].model =
                    IF GetById(sessionStateUsage, id).model = "default"
                    THEN GetById(usageBySession, id).model
                    ELSE GetById(sessionStateUsage, id).model

\* C4 (standalone authoritative sessions): once both loops are done, a usage
\* record whose id is not in the session-state results has been added exactly
\* once, with its own timestamp and tokens, if it has a timestamp, and not at
\* all if it has none; nothing else than the added sessions is in the totals
\* and the buckets.
StandaloneSessions ==
    LoopsDone =>
        /\ \A u \in SeqToSet(usageBySession) :
              ~HasId(sessionStateUsage, u.id) =>
                  IF u.timestamp # NoDate
                  THEN /\ Cardinality(CallsFor(u.id)) = 1
                       /\ \A k \in CallsFor(u.id) :
                             /\ reconciled[k].date = u.timestamp
                             /\ reconciled[k].key = getAggregationKey(u.timestamp, timeUnit)
                             /\ reconciled[k].inputTokens = u.inputTokens
                             /\ reconciled[k].outputTokens = u.outputTokens
                       /\ HasKey(aggStats, getAggregationKey(u.timestamp, timeUnit))
                  ELSE CallsFor(u.id) = {}
        /\ totalSessions = Len(reconciled)
        /\ totalInputTokens = SumField(reconciled, "inputTokens")
        /\ totalOutputTokens = SumField(reconciled, "outputTokens")
        /\ totalCost = SumField(reconciled, "cost")
        /\ SumField(aggStats, "sessions") = Len(reconciled)
        /\ SumField(aggStats, "input") = SumField(reconciled, "inputTokens")
        /\ SumField(aggStats, "output") = SumField(reconciled, "outputTokens")

\* both loops are done over usage records without a session-state entry, one
\* with a timestamp and one without
StandaloneWitness ==
    /\ pc = "gapfill"
    /\ \E u \in SeqToSet(usageBySession) :
          ~HasId(sessionStateUsage, u.id) /\ u.timestamp # NoDate
    /\ \E u \in SeqToSet(usageBySession) :
          ~HasId(sessionStateUsage, u.id) /\ u.timestamp = NoDate

\* days from 0000-03-01 style counting is not needed: a day number that grows
\* by one per calendar day
RECURSIVE DaysBeforeMonth(_, _)
DaysBeforeMonth(y, m) ==
    IF m = 1 THEN 0 ELSE DaysBeforeMonth(y, m - 1) + DaysInMonth(y, m - 1)

DaysBeforeYear(y) ==
    365 * (y - 1) + ((y - 1) \div 4) - ((y - 1) \div 100) + ((y - 1) \div 400)

\* the position of a bucket key on the time line of its unit: consecutive
\* months, days or hours have consecutive ordinals
KeyOrdinal(key, unit) ==
    LET date == parseKeyToDate(key, unit)
        day  == DaysBeforeYear(date.y) + DaysBeforeMonth(date.y, date.m) + date.d
    IN  IF unit = "month" THEN 12 * date.y + date.m
        ELSE IF unit = "hour" THEN 24 * day + date.h
        ELSE day

PopulatedKeys == { reconciled[k].key : k \in 1..Len(reconciled) }
PopulatedOrdinals == { KeyOrdinal(key, timeUnit) : key \in PopulatedKeys }
BucketOrdinals == { KeyOrdinal(aggStats[k].key, timeUnit) : k \in 1..Len(aggStats) }

\* C7 (gap fill): when the report is not rank-sorted and a bucket is
\* populated, after gap filling there is a bucket, keyed in the unit's key
\* format, for every unit step from the earliest to the latest populated key,
\* and every bucket no session falls into is all zero.
GapFillProperty ==
    (GapFillDone /\ ~rankByCost /\ PopulatedKeys # {}) =>
        /\ \A n \in PopulatedOrdinals : \A o \in PopulatedOrdinals :
              \A step \in n..o : step \in BucketOrdinals
        /\ \A k \in 1..Len(aggStats) :
              /\ aggStats[k].key =
                     getAggregationKey(parseKeyToDate(aggStats[k].key, timeUnit), timeUnit)
              /\ aggStats[k].key \notin PopulatedKeys =>
                     /\ aggStats[k].sessions = 0
                     /\ aggStats[k].input = 0
                     /\ aggStats[k].output = 0
                     /\ aggStats[k].cost = 0

\* gap filling is over in hour unit and has added the empty bucket of the
\* first hour of the new year between two populated hours
GapFillWitness ==
    /\ pc = "sort"
    /\ ~rankByCost
    /\ timeUnit = "hour"
    /\ "2024-12-31 23:00" \in PopulatedKeys
    /\ "2025-01-01 01:00" \in PopulatedKeys
    /\ HasKey(aggStats, "2025-01-01 00:00")
    /\ StatsOf(aggStats, "2025-01-01 00:00").sessions = 0

\* C8 (final ordering): the sorted keys are the bucket keys, each once; in
\* rank mode in non-increasing order of bucket cost, otherwise in strictly
\* decreasing order of key.
FinalOrdering ==
    pc \in {"limit", "report"} =>
        /\ \A i \in 1..Len(sortedKeys) : HasKey(aggStats, sortedKeys[i])
        /\ pc = "limit" =>
              /\ Len(sortedKeys) = Len(aggStats)
              /\ \A k \in 1..Len(aggStats) :
                    \E i \in 1..Len(sortedKeys) : sortedKeys[i] = aggStats[k].key
        /\ \A i \in 1..Len(sortedKeys) : \A j \in 1..Len(sortedKeys) :
              i < j =>
                  IF rankByCost
                  THEN StatsOf(aggStats, sortedKeys[i]).cost
                           >= StatsOf(aggStats, sortedKeys[j]).cost
                  ELSE StrLess(sortedKeys[j], sortedKeys[i])

\* three buckets or more are reported by date, none in the place it was
\* created in
FinalOrderingWitness ==
    /\ pc = "report"
    /\ ~rankByCost
    /\ limit = Infinity
    /\ Len(sortedKeys) >= 3
    /\ \A i \in 1..Len(sortedKeys) : i # 2 => sortedKeys[i] # aggStats[i].key

\* C9 (limit truncates the view only): the limit step leaves the first n
\* sorted keys (all of them if there are fewer, or if no limit is set) and
\* changes neither a total nor a bucket; the totals of the report are those
\* of all sessions added, the ones in buckets cut off included.
LimitStep ==
    (pc = "limit" /\ pc' = "report") =>
        /\ Len(sortedKeys') =
               (IF limit # Infinity /\ limit < Len(sortedKeys)
                THEN limit ELSE Len(sortedKeys))
        /\ \A i \in 1..Len(sortedKeys') : sortedKeys'[i] = sortedKeys[i]
        /\ UNCHANGED << totalVars, aggStats >>

LimitTruncatesViewOnly ==
    /\ [][LimitStep]_vars
    /\ [](pc = "report" =>
            /\ totalSessions = Len(reconciled)
            /\ totalInputTokens = SumField(reconciled, "inputTokens")
            /\ totalOutputTokens = SumField(reconciled, "outputTokens")
            /\ totalCost = SumField(reconciled, "cost"))

\* the limit has cut off a bucket that holds a session
LimitWitness ==
    /\ pc = "report"
    /\ limit # Infinity
    /\ Len(sortedKeys) = limit
    /\ \E k \in 1..Len(aggStats) :
          /\ aggStats[k].sessions > 0
          /\ \A i \in 1..Len(sortedKeys) : sortedKeys[i] # aggStats[k].key

(***************************************************************************)
(* Pricing of one session, over many model strings                         *)
(***************************************************************************)
ModelCores == PricingKeys \cup {"gpt-4o", "o3-mini"}
ModelPrefixes == {"", "  ", "OpenAI/"}
ModelSuffixes == {"", "-preview", " (Preview)"}

ModelSamples ==
    { p \o c \o x : p \in ModelPrefixes, c \in ModelCores, x \in ModelSuffixes }
    \cup { "GPT-5 Mini", "GPT-5.1-Codex-Mini", "Claude_Sonnet__4.5",
           "gpt 5", "Gemini 3 Pro Preview", "unknown" }
    \cup { "constructor", "toString" }

\* one session-state session, of any sample model, and no usage logs
InitPricing ==
    /\ pc = "reconcile"
    /\ idx = 1
    /\ timeUnit = "day"
    /\ rankByCost = FALSE
    /\ limit = Infinity
    /\ \E m \in ModelSamples :
           sessionStateUsage =
               << [id |-> SessionIdList[1], date |-> Date(2025, 6, 1, 10),
                   inputTokens |-> 500, outputTokens |-> 200, model |-> m] >>
    /\ usageBySession = << >>
    /\ sessionIdsFromState = {}
    /\ totalSessions = 0
    /\ totalInputTokens = 0
    /\ totalOutputTokens = 0
    /\ totalCost = 0
    /\ aggStats = << >>
    /\ reconciled = << >>
    /\ maxKey = ""
    /\ currentKey = ""
    /\ currentDate = NoDate
    /\ sortedKeys = << >>
    /\ StateExtractorIdle
    /\ LogExtractorIdle
    /\ EnvDefault

NextPricing ==
    \/ ReconcileSession
    \/ ReconcileDone

SpecPricing == InitPricing /\ [][NextPricing]_vars

\* the cost of a call of addSessionUsage at the rates of a table key
CostAtRatesOf(r, key) ==
    r.inputTokens * PricingOf(key).input + r.outputTokens * PricingOf(key).output

\* C5 (exact-match precedence), as claimed: a session whose normalized model
\* is a key of the pricing table is priced at that key's own rates.
ExactMatchAsClaimed ==
    \A k \in 1..Len(reconciled) :
        LET n == normalizeModelName(reconciled[k].model)
        IN  n \in PricingKeys => reconciled[k].cost = CostAtRatesOf(reconciled[k], n)

\* the first key in declaration order that is a substring of n, "default" if
\* there is none
FirstKeyIn(n) ==
    IF \E i \in 1..Len(PRICING_TABLE) : Includes(n, PRICING_TABLE[i].key)
    THEN PRICING_TABLE[CHOOSE i \in 1..Len(PRICING_TABLE) :
                          /\ Includes(n, PRICING_TABLE[i].key)
                          /\ \A j \in 1..(i - 1) : ~Includes(n, PRICING_TABLE[j].key)].key
    ELSE "default"

\* C6 (substring fallback), as claimed: a session whose normalized model is
\* not a key of the pricing table is priced at the rates of the first key, in
\* declaration order, that is a substring of the normalized model, and at the
\* "default" rates if no key is; "gpt-5.1-codex-preview" gets the
\* gpt-5.1-codex entry.
SubstringFallbackAsClaimed ==
    \A k \in 1..Len(reconciled) :
        LET r == reconciled[k]
            n == normalizeModelName(r.model)
        IN  /\ n \notin PricingKeys =>
                  /\ r.pricingKey = FirstKeyIn(n)
                  /\ r.cost = CostAtRatesOf(r, FirstKeyIn(n))
            /\ r.model = "gpt-5.1-codex-preview" => r.pricingKey = "gpt-5.1-codex"
            /\ r.model = "unknown" => r.pricingKey = "default"

(***************************************************************************)
(* Claims on the session-state extractor                                   *)
(***************************************************************************)
\* the postTruncationTokensInMessages of the session.truncation records read
\* from the current file, in order
TruncationValues ==
    LET RECURSIVE Pick(_)
        Pick(k) ==
            IF k = 0 THEN << >>
            ELSE IF eventsRead[k].kind = "event"
                    /\ eventsRead[k].type = "session.truncation"
                    /\ eventsRead[k].data # NoData
                 THEN Append(Pick(k - 1),
                             eventsRead[k].data.postTruncationTokensInMessages)
                 ELSE Pick(k - 1)
    IN  Pick(Len(eventsRead))

MaxOf(values) ==
    CHOOSE v \in SeqToSet(values) : \A w \in SeqToSet(values) : w <= v

\* the file is read to its end and its estimate is computed
FileEstimated == pc = "state" /\ filePath # ""

\* C10 (truncation policy), as claimed: when a session-state file holds
\* several session.truncation records, the file's estimated input tokens are
\* the largest postTruncationTokensInMessages among them, not their sum.
TruncationMaxAsClaimed ==
    (FileEstimated /\ Len(TruncationValues) >= 2)
        => sessionInputTokens = MaxOf(TruncationValues)

(***************************************************************************)
(* Claims on the usage-log extractor                                       *)
(***************************************************************************)
\* usageRecords[k] repeats the (sessionId, responseId) of an earlier record
RepeatsEarlier(k) ==
    /\ ~Falsy(usageRecords[k].responseId)
    /\ \E j \in 1..(k - 1) :
          /\ usageRecords[j].sessionId = usageRecords[k].sessionId
          /\ usageRecords[j].responseId = usageRecords[k].responseId

\* the sum of a field over the first n usage records of a session, the
\* repeats left out
RECURSIVE TokensWithoutRepeats(_, _, _)
TokensWithoutRepeats(id, f, n) ==
    IF n = 0 THEN 0
    ELSE TokensWithoutRepeats(id, f, n - 1)
         + (IF usageRecords[n].sessionId = id /\ ~RepeatsEarlier(n)
            THEN usageRecords[n][f] ELSE 0)

\* C2 (idempotence of dedup): the prompt and completion totals of every
\* session are those of its usage records with every occurrence of a
\* (sessionId, responseId) pair seen earlier in the run left out, so one more
\* occurrence of such a payload, in the same file or in another one, changes
\* no total; a session all of whose records are left out does not exist.
DedupIdempotent ==
    /\ \A k \in 1..Len(usageBySession) :
          /\ usageBySession[k].inputTokens =
                 TokensWithoutRepeats(usageBySession[k].id, "promptTokens",
                                      Len(usageRecords))
          /\ usageBySession[k].outputTokens =
                 TokensWithoutRepeats(usageBySession[k].id, "completionTokens",
                                      Len(usageRecords))
    /\ \A k \in 1..Len(usageRecords) : HasId(usageBySession, usageRecords[k].sessionId)

\* the run is over, and a payload was repeated within one file and across files
DedupWitness ==
    /\ pc = "state"
    /\ \E k \in 1..Len(usageRecords) :
          /\ RepeatsEarlier(k)
          /\ \E j \in 1..(k - 1) :
                /\ usageRecords[j].sessionId = usageRecords[k].sessionId
                /\ usageRecords[j].responseId = usageRecords[k].responseId
                /\ usageRecords[j].file = usageRecords[k].file
    /\ \E k \in 1..Len(usageRecords) :
          /\ RepeatsEarlier(k)
          /\ \E j \in 1..(k - 1) :
                /\ usageRecords[j].sessionId = usageRecords[k].sessionId
                /\ usageRecords[j].responseId = usageRecords[k].responseId
                /\ usageRecords[j].file # usageRecords[k].file

\* the token counts of all session.truncation records read from the current
\* file, 0 for a record that carries none
TruncationCounts ==
    LET RECURSIVE Pick(_)
        Pick(k) ==
            IF k = 0 THEN << >>
            ELSE IF eventsRead[k].kind = "event"
                    /\ eventsRead[k].type = "session.truncation"
                 THEN Append(Pick(k - 1),
                             eventsRead[k].data.postTruncationTokensInMessages)
                 ELSE Pick(k - 1)
    IN  Pick(Len(eventsRead))

RECURSIVE SumOf(_)
SumOf(values) == IF Len(values) = 0 THEN 0 ELSE values[1] + SumOf(Tail(values))

\* C11 (truncation overrides the heuristic), as claimed: when a session-state
\* file holds at least one session.truncation record, be it one that reports
\* 0 or no token count, the file's estimated input tokens are made of the
\* truncation counts alone (their sum or their maximum) and the estimate from
\* the user.message records adds nothing.
TruncationOverridesAsClaimed ==
    (FileEstimated /\ Len(TruncationCounts) >= 1)
        => sessionInputTokens \in {SumOf(TruncationCounts), MaxOf(TruncationCounts)}

(***************************************************************************)
(* Claims on the whole run                                                 *)
(***************************************************************************)
\* the estimates of the files that resolved to the id, in processing order
EstimatesOf(id) == SelectSeq(fileEstimates, LAMBDA e : e.id = id)

RECURSIVE EarliestDate(_)
EarliestDate(estimates) ==
    IF Len(estimates) = 1 THEN estimates[1].date
    ELSE LET rest == EarliestDate(Tail(estimates))
         IN  IF DateLess(rest, estimates[1].date) THEN rest ELSE estimates[1].date

RECURSIVE FirstNonDefaultModel(_)
FirstNonDefaultModel(estimates) ==
    IF Len(estimates) = 0 THEN "default"
    ELSE IF estimates[1].model # "default" THEN estimates[1].model
    ELSE FirstNonDefaultModel(Tail(estimates))

\* the loop over sessionStateUsage is over
StateReconciled == pc \in {"standalone", "gapfill", "gaploop", "sort", "limit", "report"}

\* C12 (multi-file accumulation): the single estimate of a session id has
\* the sums of the input and output tokens of the estimates of the files that
\* resolved to the id, the earliest of their dates and the first non-default
\* model in processing order ("default" if there is none); once the estimates
\* are reconciled the id stands for exactly one session of totalSessions.
MultiFileAccumulation ==
    /\ \A k \in DOMAIN sessionStateUsage :
          LET usage     == sessionStateUsage[k]
              estimates == EstimatesOf(usage.id)
          IN  /\ Len(estimates) >= 1
              /\ usage.inputTokens =
                     SumOf([i \in DOMAIN estimates |-> estimates[i].inputTokens])
              /\ usage.outputTokens =
                     SumOf([i \in DOMAIN estimates |-> estimates[i].outputTokens])
              /\ usage.date = EarliestDate(estimates)
              /\ usage.model = FirstNonDefaultModel(estimates)
    /\ \A i \in DOMAIN fileEstimates : HasId(sessionStateUsage, fileEstimates[i].id)
    /\ totalSessions = Len(reconciled)
    /\ StateReconciled =>
          \A i \in DOMAIN fileEstimates :
              Cardinality(CallsFor(fileEstimates[i].id)) = 1

\* two files of one session, the later one processed first, the second one
\* with the first model that is not the default, and the run at its report
MultiFileWitness ==
    /\ pc = "report"
    /\ Len(fileEstimates) = 2
    /\ fileEstimates[1].id = fileEstimates[2].id
    /\ DateLess(fileEstimates[2].date, fileEstimates[1].date)
    /\ fileEstimates[1].model = "default"
    /\ fileEstimates[2].model # "default"
    /\ fileEstimates[1].inputTokens > 0
    /\ fileEstimates[2].outputTokens > 0
    /\ totalSessions = 1

\* what one session-state file gives when it is read alone: the locals of its
\* iteration after the lines read so far
RECURSIVE FileLocals(_, _, _)
FileLocals(path, events, n) ==
    IF n = 0
    THEN [date |-> NoDate, id |-> inferSessionIdFromSessionFile(path),
          model |-> "default", messages |-> 0, truncation |-> 0, output |-> 0]
    ELSE LET before  == FileLocals(path, events, n - 1)
             event   == events[n]
             data    == event.data
             started == event.type = "session.start" /\ ~Falsy(data.startTime)
         IN  IF event.kind # "event" THEN before
             ELSE [date  |-> IF started THEN DateFromString(data.startTime)
                             ELSE before.date,
                   id    |-> IF started /\ ~Falsy(data.sessionId) THEN data.sessionId
                             ELSE before.id,
                   model |-> IF started \/ event.type = "session.info"
                             THEN FirstSet(data.selectedModel, data.selectedMode,
                                           data.model, before.model)
                             ELSE before.model,
                   messages |->
                       IF event.type = "user.message"
                       THEN before.messages + estimateTokensFromText(
                                FirstSet(data.transformedContent, data.content, "", ""))
                       ELSE before.messages,
                   truncation |->
                       IF event.type = "session.truncation"
                       THEN before.truncation + data.postTruncationTokensInMessages
                       ELSE before.truncation,
                   output |->
                       IF event.type \in {"assistant.message", "assistant.reasoning"}
                       THEN before.output + estimateTokensFromText(data.content)
                       ELSE before.output]

\* the estimate of a file of these lines read alone
EstimateFrom(path, events) ==
    LET locals == FileLocals(path, events, Len(events))
    IN  [file |-> path, id |-> locals.id, date |-> locals.date,
         inputTokens  |-> IF locals.truncation > 0 THEN locals.truncation
                          ELSE locals.messages,
         outputTokens |-> locals.output, model |-> locals.model]

EstimateAlone(path) == EstimateFrom(path, sessionFileContents[path])

\* the estimates of the files of the directory, whatever the order they are
\* processed in
EstimatesAlone ==
    { e \in { EstimateAlone(path) : path \in DOMAIN sessionFileContents } :
        e.date # NoDate /\ e.date # InvalidDate }

EstimatesAloneOf(id) == { e \in EstimatesAlone : e.id = id }

RECURSIVE SumOver(_, _)
SumOver(estimates, field) ==
    IF estimates = {} THEN 0
    ELSE LET e == CHOOSE x \in estimates : TRUE
         IN  e[field] + SumOver(estimates \ {e}, field)

EarliestOver(estimates) ==
    (CHOOSE e \in estimates : \A other \in estimates : ~DateLess(other.date, e.date)).date

\* the usage records of the logs that make a session of their own
StandaloneIds ==
    { usageBySession[k].id : k \in { j \in DOMAIN usageBySession :
          /\ EstimatesAloneOf(usageBySession[j].id) = {}
          /\ usageBySession[j].timestamp # NoDate } }

RECURSIVE SumCalls(_, _, _)
SumCalls(calls, key, field) ==
    IF Len(calls) = 0 THEN 0
    ELSE (IF calls[1].key = key THEN calls[1][field] ELSE 0)
         + SumCalls(Tail(calls), key, field)

\* C13 (order independence of session-state parsing): at the report of a
\* run, in whatever order the session-state files were processed, every
\* session of the session state has one reconciled entry whose date is the
\* earliest date of its files read alone and whose tokens are those of the
\* logs if the logs know the session and else the sums over its files read
\* alone; totalSessions and the token totals of the buckets follow from these
\* entries; the model of the session state is the one of its files read alone
\* unless two of them assert different models that are not the default.
OrderIndependence ==
    pc = "report" =>
        /\ IdsOf(sessionStateUsage) = { e.id : e \in EstimatesAlone }
        /\ \A k \in DOMAIN sessionStateUsage :
              LET usage == sessionStateUsage[k]
                  alone == EstimatesAloneOf(usage.id)
                  models == { e.model : e \in alone } \ {"default"}
              IN  /\ Cardinality(CallsFor(usage.id)) = 1
                  /\ \A c \in CallsFor(usage.id) :
                        /\ reconciled[c].date = EarliestOver(alone)
                        /\ reconciled[c].inputTokens =
                               IF HasId(usageBySession, usage.id)
                               THEN GetById(usageBySession, usage.id).inputTokens
                               ELSE SumOver(alone, "inputTokens")
                        /\ reconciled[c].outputTokens =
                               IF HasId(usageBySession, usage.id)
                               THEN GetById(usageBySession, usage.id).outputTokens
                               ELSE SumOver(alone, "outputTokens")
                  /\ models = {} => usage.model = "default"
                  /\ Cardinality(models) = 1 => usage.model \in models
                  /\ usage.model \in models \cup {"default"}
        /\ totalSessions = Cardinality({ e.id : e \in EstimatesAlone })
                               + Cardinality(StandaloneIds)
        /\ \A k \in DOMAIN aggStats :
              /\ aggStats[k].input = SumCalls(reconciled, aggStats[k].key, "inputTokens")
              /\ aggStats[k].output = SumCalls(reconciled, aggStats[k].key, "outputTokens")

\* two files of one session, the file that the directory lists last processed
\* first, both with a model of their own: the model is the one of the file
\* processed first
OrderWitness ==
    /\ pc = "report"
    /\ Len(fileEstimates) = 2
    /\ fileEstimates[1].file = RunSessionPaths[2]
    /\ fileEstimates[1].id = fileEstimates[2].id
    /\ fileEstimates[1].date # fileEstimates[2].date
    /\ fileEstimates[1].model # "default"
    /\ fileEstimates[2].model # "default"
    /\ fileEstimates[1].model # fileEstimates[2].model
    /\ sessionStateUsage[1].model = fileEstimates[1].model

(***************************************************************************)
(* Claims on the identity of the usage records                             *)
(***************************************************************************)
\* the step finalizes the open buffer: a prefixed line is read, or the file ends
Finalizing ==
    /\ pc = "lines"
    /\ jsonBuffer # << >>
    /\ \/ pc' = "logs"
       \/ lineNo' = lineNo + 1 /\ LOG_PREFIX_PATTERN(line').matched

\* the usage record of a parsed buffer, NoUsageRecord if the buffer did not parse
UsageRecordIn(parsed) ==
    IF parsed.ok THEN extractUsageFromResponsePayload(parsed.v) ELSE NoUsageRecord

\* the usage record of the open buffer
PendingUsage == UsageRecordIn(JsonParse(Trim(Join(jsonBuffer))))

\* the three candidates for the session id of the open buffer
Candidates(usageRecord) == {usageRecord.sessionId, jsonBufferSessionId, fileSessionId}

ResolvableAmong(candidates) == \E c \in candidates : ~Falsy(c) /\ UUID_PATTERN(c)

\* C14 (unresolvable identity is discarded, resolvable identity is kept), as
\* claimed: when a buffer with a valid usage object is finalized and one of
\* its three candidates (the payload's session identifier, the session context
\* captured when the buffer was started, the id of the file name) is a valid
\* UUID-shaped id, the record is not discarded.
ResolvableKeptAsClaimed ==
    [][ (Finalizing /\ PendingUsage.found /\ ResolvableAmong(Candidates(PendingUsage)))
            => usageRecords' # usageRecords ]_vars

(***************************************************************************)
(* Claims on malformed input                                               *)
(***************************************************************************)
\* the step reads a line of a session-state file that is not JSON
ReadsMalformedEvent ==
    /\ pc = "events"
    /\ Len(eventsRead') = Len(eventsRead) + 1
    /\ eventsRead'[Len(eventsRead')].kind = "malformed"

\* the open buffer of the usage log does not give a usage record: it does not
\* parse as JSON, or its payload has no usage object with numeric
\* prompt_tokens and completion_tokens
BufferMalformed == pc = "lines" /\ jsonBuffer # << >> /\ ~PendingUsage.found

\* the lines of a session-state file without those that are not JSON
WithoutMalformed(events) == SelectSeq(events, LAMBDA e : e.kind # "malformed")

\* C15 (malformed input never disturbs other records): a session-state line
\* that is not JSON leaves every local of its file and every result of the
\* run as it was, and the loop over the lines goes on; the finalization of a
\* usage-log buffer that does not parse (at a prefixed line or at the end of
\* the file) or whose payload lacks the numeric usage leaves usageBySession,
\* the dedup set and the extracted records as they were, and the loops go
\* on; the estimate of every session-state file is the one of the file with
\* its lines that are not JSON taken out.
MalformedSkipped ==
    /\ [][ ReadsMalformedEvent =>
              /\ pc' = "events"
              /\ UNCHANGED << sessionDateObj, sessionId, sessionModel,
                              sessionInputTokensFromMessages,
                              sessionInputTokensFromTruncationSum,
                              sessionOutputTokens, sessionStateUsage,
                              fileEstimates, usageBySession, reportVars >> ]_vars
    /\ [][ (Finalizing /\ BufferMalformed) =>
              /\ pc' \in {"lines", "logs"}
              /\ UNCHANGED << usageBySession, seenUsageBySessionAndResponse,
                              usageRecords, sessionStateUsage, reportVars >> ]_vars
    /\ [](\A i \in DOMAIN fileEstimates :
              fileEstimates[i] =
                  EstimateFrom(fileEstimates[i].file,
                               WithoutMalformed(sessionFileContents[fileEstimates[i].file])))

\* a run in which a line that is not JSON was skipped in a session-state
\* file and two buffers were dropped in a usage log (one without numeric
\* usage, one cut off by the end of the file), and the records around them count
MalformedWitness ==
    /\ pc = "report"
    /\ \E i \in DOMAIN fileEstimates :
          /\ fileEstimates[i].inputTokens = 3
          /\ fileEstimates[i].outputTokens = 1
          /\ fileEstimates[i].model = "claude-opus-4.5"
    /\ \E p \in DOMAIN logFileContents : logFileContents[p] = LogContents[3]
    /\ \E k \in DOMAIN usageRecords :
          /\ usageRecords[k].responseId = "r2"
          /\ usageRecords[k].promptTokens = 40
    /\ ~ \E k \in DOMAIN usageRecords : usageRecords[k].responseId \in {"r3", "r4"}

(***************************************************************************)
(* Claims on the scan of the session-state directory                       *)
(***************************************************************************)
\* the directory of depth k and all the directories above it can be read
Readable(k) ==
    \A j \in 1..k : ScanDirs[j] \in DOMAIN dirEntries /\ ScanDirs[j] \notin unreadableDirs

\* the regular files of the tree that a walk from the root can see and whose
\* names are of the family
FilesOfFamily(events) ==
    UNION { { PathJoin(ScanDirs[k], e.name) :
                e \in { x \in SeqToSet(dirEntries[ScanDirs[k]]) :
                          /\ x.kind = "file"
                          /\ IF events THEN x.name = "events.jsonl"
                             ELSE /\ x.name # "events.jsonl"
                                  /\ Len(x.name) >= 6
                                  /\ SubSeq(x.name, Len(x.name) - 5, Len(x.name)) = ".jsonl" } } :
            k \in { j \in 1..Len(ScanDirs) : Readable(j) } }

\* C16 (the session-state scanner combines both families): the result of the
\* scan holds every regular file named events.jsonl, at any depth, and every
\* other regular file whose name ends in .jsonl, whether or not files of the
\* other family exist, each once and nothing else; a root that cannot be read
\* gives the empty result.
ScannerCombinesFamilies ==
    pc = "scanned" =>
        /\ files = FilesOfFamily(TRUE) \cup FilesOfFamily(FALSE)
        /\ Len(ScanResult) = Cardinality(files)
        /\ SESSION_DIR \in unreadableDirs => files = {}

\* a tree with events.jsonl at the root and two levels down and flat .jsonl
\* files at the root and one level down, all of them in the result
ScannerWitness ==
    /\ pc = "scanned"
    /\ { SESSION_DIR \o "/events.jsonl", SESSION_DIR \o "/a/b/events.jsonl",
         SESSION_DIR \o "/s1.jsonl", SESSION_DIR \o "/a/s1.jsonl" } \subseteq files
    /\ Entry("link.jsonl", "other") \in SeqToSet(dirEntries[SESSION_DIR])
    /\ Entry("notes.txt", "file") \in SeqToSet(dirEntries[SESSION_DIR])
    /\ Cardinality(files) = 4

(***************************************************************************)
(* Claims on the directories                                               *)
(***************************************************************************)
\* nothing was reported
NoReport ==
    /\ totalSessions = 0
    /\ aggStats = << >>
    /\ reconciled = << >>
    /\ sortedKeys = << >>

\* C17 (missing directories are fatal only when both are absent): the run
\* exits with status 1, with no report, exactly when neither the session-state
\* directory nor the usage-log directory exists; when one of them exists the
\* run goes on with no file of the absent source, and its report is made of
\* the sessions of the other source alone.
MissingDirectories ==
    /\ pc = "exit" => (~hasSessionDir /\ ~hasLogDir /\ NoReport)
    /\ (~hasSessionDir /\ ~hasLogDir) => (pc \in {"start", "exit"} /\ NoReport)
    /\ (~hasSessionDir /\ pc # "start") =>
           /\ files = {} /\ fileEstimates = << >> /\ sessionStateUsage = << >>
           /\ \A k \in DOMAIN reconciled : HasId(usageBySession, reconciled[k].sessionId)
    /\ (~hasLogDir /\ pc # "start") =>
           /\ logFiles = {} /\ usageRecords = << >> /\ usageBySession = << >>
           /\ \A k \in DOMAIN reconciled : HasId(sessionStateUsage, reconciled[k].sessionId)

\* a report made of the usage logs alone, the session-state directory absent
MissingDirectoriesWitness ==
    /\ pc = "report"
    /\ ~hasSessionDir
    /\ hasLogDir
    /\ totalSessions >= 1
    /\ Len(sortedKeys) >= 1

(***************************************************************************)
(* Claims on the estimate scenario                                         *)
(***************************************************************************)
\* exactly one session-state file: a session.start of session S1 at
\* 2025-06-01T10:00:00Z, one session.truncation with 1000 tokens, one
\* assistant.message of 400 characters; no usage of S1 in the logs; unit day;
\* the run is at its report
EstimateScenario ==
    /\ pc = "report"
    /\ timeUnit = "day"
    /\ Cardinality(DOMAIN sessionFileContents) = 1
    /\ \A p \in DOMAIN sessionFileContents : sessionFileContents[p] = SessionContents[1]
    /\ ~HasId(usageBySession, SessionIdList[1])

\* the bucket of the key has one session of 1000 input and 100 output tokens
\* at the rates of the default pricing entry
ScenarioBucket(key) ==
    /\ HasKey(aggStats, key)
    /\ StatsOf(aggStats, key).sessions = 1
    /\ StatsOf(aggStats, key).input = 1000
    /\ StatsOf(aggStats, key).output = 100
    /\ StatsOf(aggStats, key).cost = 1000 * PricingOf("default").input
                                         + 100 * PricingOf("default").output
    /\ \A c \in CallsFor(SessionIdList[1]) : reconciled[c].pricingKey = "default"

\* the totals are those of the bucket of the key
TotalsAreBucket(key) ==
    /\ totalSessions = StatsOf(aggStats, key).sessions
    /\ totalInputTokens = StatsOf(aggStats, key).input
    /\ totalOutputTokens = StatsOf(aggStats, key).output
    /\ totalCost = StatsOf(aggStats, key).cost

\* the local calendar date of 2025-06-01T10:00:00Z
LocalDayOfStart ==
    IF utcOffset >= 14 THEN "2025-06-02"
    ELSE IF utcOffset <= 0 - 11 THEN "2025-05-31"
    ELSE "2025-06-01"

TokensOf(map, id) ==
    IF HasId(map, id)
    THEN << GetById(map, id).inputTokens, GetById(map, id).outputTokens >>
    ELSE << 0, 0 >>

\* the usage record adds its tokens to those of the session id
AddsTokens(usageRecord, id) ==
    /\ TokensOf(usageBySession', id)[1]
           = TokensOf(usageBySession, id)[1] + usageRecord.promptTokens
    /\ TokensOf(usageBySession', id)[2]
           = TokensOf(usageBySession, id)[2] + usageRecord.completionTokens

\* the open buffer gives a usage record without response id whose session id
\* resolves to id
CountsWithoutResponseId(usageRecord, id) ==
    (/\ usageRecord.found
     /\ Falsy(usageRecord.responseId)
     /\ ~Falsy(id)
     /\ UUID_PATTERN(id)) => AddsTokens(usageRecord, id)

\* C19 (no dedup without a response id): whenever a buffer is finalized whose
\* payload has a valid usage object, a session id that resolves and no
\* response identifier, its prompt and completion tokens are added to the
\* totals of its session, whatever was counted before: k such payloads add k
\* times their tokens.
NoDedupWithoutResponseId ==
    [][ Finalizing =>
          CountsWithoutResponseId(PendingUsage,
              ResolvedSessionId(PendingUsage, jsonBufferSessionId, fileSessionId))
      ]_vars

\* two textually identical payloads without response id were counted for one
\* session: twice their tokens
NoDedupWitness ==
    /\ Len(usageRecords) = 2
    /\ usageRecords[1].responseId = NULL
    /\ usageRecords[2] = usageRecords[1]
    /\ Len(usageBySession) = 1
    /\ usageBySession[1].id = usageRecords[1].sessionId
    /\ usageBySession[1].inputTokens = 2 * usageRecords[1].promptTokens
    /\ usageBySession[1].outputTokens = 2 * usageRecords[1].completionTokens
    /\ usageRecords[1].promptTokens > 0

(***************************************************************************)
(* Claims on the session id of a usage record                              *)
(***************************************************************************)
\* the lines of the current log file
LinesOfLog == logFileContents[logFilePath]

\* the line that started the open buffer: the last prefixed line read
BufferStart ==
    CHOOSE i \in 1..lineNo :
        /\ LOG_PREFIX_PATTERN(LinesOfLog[i]).matched
        /\ \A j \in (i + 1)..lineNo : ~LOG_PREFIX_PATTERN(LinesOfLog[j]).matched

\* the prefixed lines up to the start of the buffer that name a session
Announcements(start) ==
    { i \in 1..start :
        /\ LOG_PREFIX_PATTERN(LinesOfLog[i]).matched
        /\ SESSION_CONTEXT_PATTERN(LOG_PREFIX_PATTERN(LinesOfLog[i]).payload) # NULL }

\* the session context when the buffer was started: the session the last such
\* line names, absent if no line of the file has named one
ContextAt(start) ==
    IF Announcements(start) = {} THEN NULL
    ELSE SESSION_CONTEXT_PATTERN(LOG_PREFIX_PATTERN(
             LinesOfLog[CHOOSE i \in Announcements(start) :
                            \A j \in Announcements(start) : j <= i]).payload)

\* the candidate of highest priority that is present
PriorityId(own, context, fileId) ==
    IF ~Falsy(own) THEN own
    ELSE IF ~Falsy(context) THEN context
    ELSE fileId

\* C20 (session id resolution priority): the session id of a usage record
\* that is extracted is the session identifier of its payload if it has one,
\* else the session context that held when its buffer was started, else the
\* id of the name of its log file.
ResolutionPriority ==
    [][ (Finalizing /\ usageRecords' # usageRecords) =>
            usageRecords'[Len(usageRecords')].sessionId =
                PriorityId(PendingUsage.sessionId, ContextAt(BufferStart),
                           FileSessionId(logFilePath)) ]_vars

\* in the log named after session 1: a record that took the session named by
\* a line before it, not that of the file name, and a record that took the
\* session identifier of its payload; in the same run a record that took the
\* id of the file name
ResolutionWitness ==
    /\ \E k \in DOMAIN usageRecords :
          /\ usageRecords[k].file = RunLogPaths[2]
          /\ usageRecords[k].responseId = "r6"
          /\ usageRecords[k].sessionId = SessionIdList[4]
    /\ \E k \in DOMAIN usageRecords :
          /\ usageRecords[k].file = RunLogPaths[2]
          /\ usageRecords[k].responseId = "r7"
          /\ usageRecords[k].sessionId = SessionIdList[3]
    /\ pc = "report"

(***************************************************************************)
(* Claims on the buffering of the usage-log lines                          *)
(***************************************************************************)
\* a prefixed line was read from the current log file
PrefixedRead ==
    \E i \in 1..lineNo : LOG_PREFIX_PATTERN(LinesOfLog[i]).matched

\* the payload of the last prefixed line read
LastPayload == LOG_PREFIX_PATTERN(LinesOfLog[BufferStart]).payload

\* the payload begins with "{", leading white space aside
BeginsWithBrace(payload) == At(TrimStart(payload), 1) = "{"

\* the buffer as the lines of the file give it: the payload of the last
\* prefixed line if it begins with "{", followed by the lines read since
BufferOfLines ==
    IF PrefixedRead /\ BeginsWithBrace(LastPayload)
    THEN << LastPayload >> \o SubSeq(LinesOfLog, BufferStart + 1, lineNo)
    ELSE << >>

\* the step adds one record to usageRecords, with these token counts
Extracts(usageRecord) ==
    /\ Len(usageRecords') = Len(usageRecords) + 1
    /\ usageRecords'[Len(usageRecords')].promptTokens = usageRecord.promptTokens
    /\ usageRecords'[Len(usageRecords')].completionTokens = usageRecord.completionTokens

\* C21 (buffering state machine): while a usage-log file is read, the open
\* buffer is the payload of the last prefixed line, if that payload begins
\* with "{", followed in order by the lines read since, and there is no open
\* buffer otherwise; nothing is extracted except in the step that reads the
\* next prefixed line or ends the file, and what is extracted then is the
\* usage of the text made of these lines joined by newlines.
BufferingStateMachine ==
    /\ [](pc = "lines" => jsonBuffer = BufferOfLines)
    /\ [][ (pc = "lines" /\ ~Finalizing) =>
               UNCHANGED << usageBySession, seenUsageBySessionAndResponse,
                            usageRecords >> ]_vars
    /\ [][ Finalizing =>
               IF UsageRecordIn(JsonParse(Trim(Join(BufferOfLines)))).found
                  /\ ResolvableAmong({ResolvedSessionId(
                         UsageRecordIn(JsonParse(Trim(Join(BufferOfLines)))),
                         jsonBufferSessionId, fileSessionId)})
               THEN Extracts(UsageRecordIn(JsonParse(Trim(Join(BufferOfLines)))))
               ELSE usageRecords' = usageRecords ]_vars

\* the record of a buffer of four lines was extracted by the step that read
\* the next prefixed line, and that line opened a buffer of its own
BufferingWitness ==
    /\ pc = "lines"
    /\ LinesOfLog = LogContents[3]
    /\ lineNo = 6
    /\ Len(jsonBuffer) = 1
    /\ \E k \in DOMAIN usageRecords :
          /\ usageRecords[k].responseId = "r2"
          /\ usageRecords[k].promptTokens = 40
          /\ usageRecords[k].file = logFilePath

(***************************************************************************)
(* Claims on plain log messages                                            *)
(***************************************************************************)
\* the step reads a line of the current log file
ReadsLogLine == pc = "lines" /\ lineNo' = lineNo + 1

\* C22 (plain log messages are never treated as JSON): a prefixed line whose
\* payload does not begin with "{" leaves no buffer open; a line without the
\* prefix that is read while no buffer is open changes nothing but the
\* position in the file; an open buffer always begins with the payload of a
\* prefixed line that begins with "{", and records are extracted only by the
\* finalization of such a buffer.
PlainMessagesNotJson ==
    /\ [][ (ReadsLogLine /\ LOG_PREFIX_PATTERN(line').matched
              /\ ~BeginsWithBrace(LOG_PREFIX_PATTERN(line').payload))
               => jsonBuffer' = << >> ]_vars
    /\ [][ (ReadsLogLine /\ ~LOG_PREFIX_PATTERN(line').matched /\ jsonBuffer = << >>)
               => UNCHANGED << jsonBuffer, jsonBufferSessionId, jsonBufferTimestamp,
                               currentSessionId, usageBySession,
                               seenUsageBySessionAndResponse, usageRecords >> ]_vars
    /\ [][ usageRecords' # usageRecords =>
               (Finalizing /\ BeginsWithBrace(jsonBuffer[1])) ]_vars
    /\ [](jsonBuffer # << >> => BeginsWithBrace(jsonBuffer[1]))
    /\ [](\A k \in DOMAIN usageRecords : usageRecords[k].responseId \notin {"r8", "r9"})

\* a message with JSON after its text was read after a payload: the payload
\* was extracted, the message left no buffer open
PlainMessagesWitness ==
    /\ pc = "lines"
    /\ lineNo = 2
    /\ line = Timestamps[1] \o " [INFO] Response: {\"id\":\"r8\"," \o UsageText \o "}"
    /\ jsonBuffer = << >>
    /\ Len(usageRecords) = 1
    /\ usageRecords[1].responseId = "r1"
    /\ usageRecords[1].file = logFilePath

(***************************************************************************)
(* Claim on the accumulation of usage records                              *)
(***************************************************************************)
\* the positions in usageRecords of the records of a session that were added
\* to its entry, in the order they were added
AddedRecords(id) ==
    { k \in 1..Len(usageRecords) :
        usageRecords[k].sessionId = id /\ ~RepeatsEarlier(k) }

\* the model of the first added record of the session that carried one
FirstCarriedModel(id) ==
    LET carrying == { k \in AddedRecords(id) : ~Falsy(usageRecords[k].model) }
    IN  IF carrying = {} THEN "default"
        ELSE usageRecords[CHOOSE k \in carrying : \A j \in carrying : k <= j].model

\* the earliest buffer-start timestamp of the added records of the session
EarliestBufferStart(id) ==
    LET dated == { k \in AddedRecords(id) : usageRecords[k].timestamp # NoDate }
    IN  IF dated = {} THEN NoDate
        ELSE usageRecords[CHOOSE k \in dated :
                 \A j \in dated :
                    ~DateLess(usageRecords[j].timestamp, usageRecords[k].timestamp)
             ].timestamp

\* C23 (authoritative accumulation): the entry of every session in
\* usageBySession has the sums of the prompt and completion tokens of the
\* records added to it, the model of the first of those records that carried
\* one ("default" only when none did), and the earliest buffer-start timestamp
\* of those records (none only when no record had a valid one).
AuthoritativeAccumulation ==
    \A k \in 1..Len(usageBySession) :
       LET entry == usageBySession[k]
       IN  /\ AddedRecords(entry.id) # {}
           /\ entry.inputTokens =
                  TokensWithoutRepeats(entry.id, "promptTokens", Len(usageRecords))
           /\ entry.outputTokens =
                  TokensWithoutRepeats(entry.id, "completionTokens", Len(usageRecords))
           /\ entry.model = FirstCarriedModel(entry.id)
           /\ entry.timestamp = EarliestBufferStart(entry.id)

\* a session got three records: the first without a valid timestamp, the
\* second with another model, the third with an earlier timestamp than the
\* second
AccumulationWitness ==
    \E k \in 1..Len(usageBySession) :
       LET added == AddedRecords(usageBySession[k].id)
       IN  \E a, b, c \in added :
              /\ a < b /\ b < c
              /\ usageRecords[a].timestamp = NoDate
              /\ ~Falsy(usageRecords[a].model)
              /\ ~Falsy(usageRecords[b].model)
              /\ usageRecords[b].model # usageRecords[a].model
              /\ usageRecords[b].timestamp # NoDate
              /\ usageRecords[c].timestamp # NoDate
              /\ DateLess(usageRecords[c].timestamp, usageRecords[b].timestamp)

(***************************************************************************)
(* Claim on the session context of a usage-log file                        *)
(***************************************************************************)
\* the session context after the first n lines of the current log file: the
\* session the last announcement among them names, the id of the file name
\* (or none) if none of them is an announcement
ContextInForce(n) ==
    IF Announcements(n) = {} THEN FileSessionId(logFilePath) ELSE ContextAt(n)

\* the step starts the reading of a log file
OpensLogFile == pc = "logs" /\ pc' = "lines"

\* C24 (session context is per file): while a log file is read, the session
\* context is the one its own lines give, starting from the id of its name
\* at its first line, whatever the files before it announced; it changes only
\* at the opening of a file and at a prefixed line whose payload announces a
\* session; an open buffer holds the context of the line that opened it; and a
\* record whose payload names no session gets that context, so never a session
\* announced after the buffer was opened or in another file.
SessionContextPerFile ==
    /\ [](pc = "lines" => currentSessionId = ContextInForce(lineNo))
    /\ []((pc = "lines" /\ jsonBuffer # << >>) =>
              jsonBufferSessionId = ContextInForce(BufferStart))
    /\ [][ OpensLogFile =>
              /\ currentSessionId' = FileSessionId(logFilePath')
              /\ jsonBuffer' = << >> ]_vars
    /\ [][ currentSessionId' # currentSessionId =>
              \/ OpensLogFile
              \/ /\ ReadsLogLine
                 /\ LOG_PREFIX_PATTERN(line').matched
                 /\ SESSION_CONTEXT_PATTERN(LOG_PREFIX_PATTERN(line').payload)
                        = currentSessionId' ]_vars
    /\ [][ (Finalizing /\ usageRecords' # usageRecords
               /\ Falsy(PendingUsage.sessionId)) =>
              usageRecords'[Len(usageRecords')].sessionId
                  = ContextInForce(BufferStart) ]_vars

\* the process log announced session 4 and gave it a record; the log named
\* after session 1, read after it, gave the record of its first line to
\* session 1 and announces session 4 in its second line
SessionContextWitness ==
    /\ pc = "lines"
    /\ logFilePath = RunLogPaths[2]
    /\ lineNo = 2
    /\ currentSessionId = SessionIdList[4]
    /\ RunLogPaths[1] \in DOMAIN logFileContents
    /\ logFileContents[RunLogPaths[1]] = LogContents[5]
    /\ logFileContents[RunLogPaths[2]] = LogContents[2]
    /\ \E k \in DOMAIN usageRecords :
          /\ usageRecords[k].file = RunLogPaths[1]
          /\ usageRecords[k].responseId = "r6"
          /\ usageRecords[k].sessionId = SessionIdList[4]
    /\ \E k \in DOMAIN usageRecords :
          /\ usageRecords[k].file = RunLogPaths[2]
          /\ usageRecords[k].responseId = "r1"
          /\ usageRecords[k].sessionId = SessionIdList[1]

(***************************************************************************)
(* Claim on the model hint of a session.info record                        *)
(***************************************************************************)
\* the step reads a session.info record of a session-state file
ReadsSessionInfo ==
    /\ pc = "events"
    /\ Len(eventsRead') = Len(eventsRead) + 1
    /\ eventsRead'[Len(eventsRead')].kind = "event"
    /\ eventsRead'[Len(eventsRead')].type = "session.info"

\* C25 (session-info model hint): a session.info record read while the model
\* of the file is no longer "default" leaves the model as it is.
InfoHintOnlyIfDefault ==
    [][ (ReadsSessionInfo /\ sessionModel # "default") =>
            sessionModel' = sessionModel ]_vars

(***************************************************************************)
(* Claim on the output of the session-state extractor                      *)
(***************************************************************************)
\* the positions of the session.start records with a start timestamp
StartsIn(events) ==
    { i \in 1..Len(events) :
        /\ events[i].kind = "event"
        /\ events[i].type = "session.start"
        /\ ~Falsy(events[i].data.startTime) }

\* the start timestamp observed in the file: that of the last such record
ObservedStart(events) ==
    events[CHOOSE i \in StartsIn(events) : \A j \in StartsIn(events) : j <= i
          ].data.startTime

\* the file has a session.start record with a start timestamp, and the one
\* observed is a date
HasParseableStart(events) ==
    /\ StartsIn(events) # {}
    /\ DateFromString(ObservedStart(events)) # InvalidDate

\* the step ends the reading of a session-state file
EndsSessionFile == pc = "events" /\ pc' = "state"

\* C26 (session-state extractor output): the end of a session-state file
\* leaves sessionStateUsage and the estimates as they are if the file had no
\* session.start record with a start timestamp or the timestamp observed is
\* no date; otherwise it yields one estimate, dated with that timestamp,
\* merged into the entry of its session.
ZeroOrOneEstimate ==
    /\ [][ (EndsSessionFile /\ ~HasParseableStart(eventsRead)) =>
              /\ sessionStateUsage' = sessionStateUsage
              /\ fileEstimates' = fileEstimates ]_vars
    /\ [][ (EndsSessionFile /\ HasParseableStart(eventsRead)) =>
              /\ Len(fileEstimates') = Len(fileEstimates) + 1
              /\ SubSeq(fileEstimates', 1, Len(fileEstimates)) = fileEstimates
              /\ fileEstimates'[Len(fileEstimates')].file = filePath
              /\ fileEstimates'[Len(fileEstimates')].date
                     = DateFromString(ObservedStart(eventsRead))
              /\ HasId(sessionStateUsage', fileEstimates'[Len(fileEstimates')].id)
              /\ Len(sessionStateUsage') =
                     Len(sessionStateUsage)
                     + (IF HasId(sessionStateUsage,
                                 fileEstimates'[Len(fileEstimates')].id)
                        THEN 0 ELSE 1) ]_vars
    /\ [](Len(sessionStateUsage) <= Len(fileEstimates))

\* both files were read: the first gave one estimate, the second, whose
\* session.start record has a timestamp that is no date, and which has
\* messages, gave none
ZeroOrOneWitness ==
    /\ pc = "state"
    /\ files = {}
    /\ Len(fileEstimates) = 1
    /\ fileEstimates[1].file # filePath
    /\ StartsIn(eventsRead) # {}
    /\ ~HasParseableStart(eventsRead)
    /\ \E i \in 1..Len(eventsRead) : eventsRead[i].type = "user.message"
    /\ Len(sessionStateUsage) = 1

(***************************************************************************)
(* Claim on the order of the usage-log files                               *)
(***************************************************************************)
\* The locals of analyzeUsageLogFiles are those of one file; only
\* usageBySession and seenUsageBySessionAndResponse pass from a file to the
\* next.  So the usage records a file gives, with their session ids and
\* timestamps, do not depend on its place in logFiles, and the outcome of
\* another order is that of the dedup and the accumulation applied to the
\* records of the files taken in that order.

\* the usage records of the files, the files taken in this order
RecordsInOrder(paths) ==
    IF Len(paths) = 1
    THEN SelectSeq(usageRecords, LAMBDA r : r.file = paths[1])
    ELSE SelectSeq(usageRecords, LAMBDA r : r.file = paths[1])
         \o SelectSeq(usageRecords, LAMBDA r : r.file = paths[2])

\* usageBySession and seenUsageBySessionAndResponse after the dedup and the
\* accumulation of the first n of the records
RECURSIVE Accumulated(_, _)
Accumulated(records, n) ==
    IF n = 0 THEN [usageBySession |-> << >>, seen |-> {}]
    ELSE LET before    == Accumulated(records, n - 1)
             r         == records[n]
             dedupeKey == DedupeKey(r.sessionId, r.responseId)
         IN  IF ~Falsy(r.responseId) /\ Seen(before.seen, dedupeKey)
             THEN before
             ELSE [usageBySession |-> AddUsageRecord(before.usageBySession,
                                         r.sessionId, r, r.timestamp),
                   seen |-> IF ~Falsy(r.responseId)
                            THEN before.seen \cup {dedupeKey} ELSE before.seen]

\* usageBySession for the files processed in this order
UsageInOrder(paths) ==
    Accumulated(RecordsInOrder(paths), Len(RecordsInOrder(paths))).usageBySession

\* the two maps have the same sessions with the same totals and timestamps
SameTotals(map1, map2) ==
    /\ \A k \in 1..Len(map1) : HasId(map2, map1[k].id)
    /\ \A k \in 1..Len(map2) : HasId(map1, map2[k].id)
    /\ \A k \in 1..Len(map1) : \A j \in 1..Len(map2) :
          map1[k].id = map2[j].id =>
             /\ map1[k].inputTokens = map2[j].inputTokens
             /\ map1[k].outputTokens = map2[j].outputTokens
             /\ map1[k].timestamp = map2[j].timestamp

\* C27 (order independence of the usage logs): once the usage logs are read,
\* the totals and the earliest timestamp of every session are those that the
\* files give when they are processed in the opposite order.
LogOrderIndependence ==
    (pc = "state" /\ UsageInOrder(RunLogPaths) = usageBySession) =>
        SameTotals(UsageInOrder(RunLogPaths),
                   UsageInOrder(<< RunLogPaths[2], RunLogPaths[1] >>))

(***************************************************************************)
(* Claim on the arithmetic of the costs                                    *)
(***************************************************************************)
\* the calls of addSessionUsage that went to the bucket of this key
PlacedIn(key) == SelectSeq(reconciled, LAMBDA r : r.key = key)

\* C28 (cost arithmetic): with the rates in cents per million tokens, so that
\* tokens * rate is the cost in units of 10^-8 dollar, the cost of every
\* session added is inputTokens * input rate + outputTokens * output rate at
\* the pricing entry of its model, the cost of every bucket is the sum of the
\* costs of the sessions placed in it, and totalCost is the sum of the costs
\* of all sessions.
CostArithmetic ==
    /\ \A k \in 1..Len(reconciled) :
          reconciled[k].cost =
              reconciled[k].inputTokens * PricingOf(reconciled[k].pricingKey).input
              + reconciled[k].outputTokens * PricingOf(reconciled[k].pricingKey).output
    /\ \A b \in 1..Len(aggStats) :
          aggStats[b].cost = SumField(PlacedIn(aggStats[b].key), "cost")
    /\ totalCost = SumField(reconciled, "cost")

\* the report is ready: a bucket holds two sessions priced at different
\* entries
CostArithmeticWitness ==
    /\ pc = "report"
    /\ \E b \in 1..Len(aggStats) :
          /\ Len(PlacedIn(aggStats[b].key)) = 2
          /\ PlacedIn(aggStats[b].key)[1].pricingKey
                 # PlacedIn(aggStats[b].key)[2].pricingKey
          /\ PlacedIn(aggStats[b].key)[1].cost # PlacedIn(aggStats[b].key)[2].cost
    /\ totalCost > 0

(***************************************************************************)
(* Claim on the estimate of the tokens of a text                           *)
(***************************************************************************)
\* the texts of the sample records with the number of bytes of their UTF-8
\* encoding: "caf@ $ <>" is 3 ASCII letters, a two-byte character, a space, a
\* three-byte character, a space and a four-byte character
Utf8Lengths ==
    { << "123456789", 9 >>, << "abc", 3 >>, << "abcde", 5 >>, << "caf@ $ <>", 14 >> }

\* ceil(n / 4) for the n bytes of the text, 0 for a text that is missing or
\* empty
CeilOfQuarter(text) ==
    IF Falsy(text) THEN 0
    ELSE LET n == (CHOOSE p \in Utf8Lengths : p[1] = text)[2]
         IN  CHOOSE t \in 0..n : 4 * (t - 1) < n /\ n <= 4 * t

\* the step reads a line of a session-state file that is a record with data
ReadsRecord ==
    /\ pc = "events"
    /\ Len(eventsRead') = Len(eventsRead) + 1
    /\ eventsRead'[Len(eventsRead')].kind = "event"

\* C29 (token estimation heuristic): a user.message record adds ceil(n / 4)
\* to the input estimate of the messages, n being the number of UTF-8 bytes of
\* its transformedContent if that is present and not empty, of its content
\* otherwise; an assistant.message or assistant.reasoning record adds that of
\* its content to the output estimate; a text that is missing or empty adds
\* 0, and no other record changes either estimate.
TokenEstimation ==
    [][ ReadsRecord =>
          LET event == eventsRead'[Len(eventsRead')]
              data  == event.data
          IN  /\ sessionInputTokensFromMessages' - sessionInputTokensFromMessages =
                     IF event.type = "user.message"
                     THEN IF ~Falsy(data.transformedContent)
                          THEN CeilOfQuarter(data.transformedContent)
                          ELSE CeilOfQuarter(data.content)
                     ELSE 0
              /\ sessionOutputTokens' - sessionOutputTokens =
                     IF event.type \in {"assistant.message", "assistant.reasoning"}
                     THEN CeilOfQuarter(data.content)
                     ELSE 0 ]_vars

\* a file gave a user.message with both texts (9 bytes in the one that
\* counts), a user.message whose content has 14 bytes in 9 code units, and an
\* assistant.message of 5 bytes: 3 + 4 tokens of input, 2 of output
TokenEstimationWitness ==
    /\ pc = "events"
    /\ Len(eventsRead) = 3
    /\ eventsRead[1].type = "user.message"
    /\ eventsRead[1].data.transformedContent = "123456789"
    /\ eventsRead[2].type = "user.message"
    /\ eventsRead[2].data.content = "caf@ $ <>"
    /\ eventsRead[3].type = "assistant.message"
    /\ sessionInputTokensFromMessages = 7
    /\ sessionOutputTokens = 2

(***************************************************************************)
(* Claim on the scan of the usage-log directory                            *)
(***************************************************************************)
\* the directory exists and can be listed
LogDirListed == LOG_DIR \in DOMAIN dirEntries /\ LOG_DIR \notin unreadableDirs

\* the paths of the regular files of the listing whose names match the
\* process-log pattern (process = TRUE) or the session-id-log pattern
LogsListed(process) ==
    { PathJoin(LOG_DIR, dirEntries[LOG_DIR][i].name) :
        i \in { j \in DOMAIN dirEntries[LOG_DIR] :
                  /\ dirEntries[LOG_DIR][j].kind = "file"
                  /\ IF process
                     THEN PROCESS_LOG_FILE_PATTERN(dirEntries[LOG_DIR][j].name)
                     ELSE UUID_LOG_FILE_PATTERN(dirEntries[LOG_DIR][j].name) } }

\* C30 (usage-log scanner order): findCopilotUsageLogFiles returns each regular
\* file of the listing whose name matches the process-log pattern or the
\* session-id-log pattern once and nothing else, every process log before
\* every session-id log, and each of the two families ascending in the order
\* of the code units of the paths, whatever the order of the listing; it
\* returns the empty list for a directory that is missing or unreadable.
ScannerOrder ==
    pc = "logscanned" =>
        IF ~LogDirListed THEN usageLogFiles = << >>
        ELSE /\ SeqToSet(usageLogFiles) = LogsListed(TRUE) \cup LogsListed(FALSE)
             /\ Len(usageLogFiles) = Cardinality(SeqToSet(usageLogFiles))
             /\ \A i, j \in 1..Len(usageLogFiles) :
                   i < j =>
                      IF usageLogFiles[i] \in LogsListed(TRUE)
                            <=> usageLogFiles[j] \in LogsListed(TRUE)
                      THEN StrLess(usageLogFiles[i], usageLogFiles[j])
                      ELSE usageLogFiles[i] \in LogsListed(TRUE)

\* all seven entries were listed, a session-id log first, process-2.log
\* before process-10.log and PROCESS-1.LOG last: the three process logs are
\* returned in ascending order, then the two session-id logs
ScannerOrderWitness ==
    /\ pc = "logscanned"
    /\ LogDirListed
    /\ Len(dirEntries[LOG_DIR]) = 7
    /\ dirEntries[LOG_DIR][1].name = SessionIdList[2] \o ".log"
    /\ dirEntries[LOG_DIR][2].name = "process-2.log"
    /\ dirEntries[LOG_DIR][3].name = "process-10.log"
    /\ dirEntries[LOG_DIR][7].name = "PROCESS-1.LOG"
    /\ usageLogFiles = << "/logs/PROCESS-1.LOG", "/logs/process-10.log",
                          "/logs/process-2.log",
                          "/logs/" \o SessionIdList[1] \o ".log",
                          "/logs/" \o SessionIdList[2] \o ".log" >>

(***************************************************************************)
(* Claim on the sign of the estimates                                      *)
(***************************************************************************)
\* C31 (estimates are non-negative): whatever records a session-state file
\* holds, session.truncation records with a count of 0 or below 0 among them,
\* the input and output tokens estimated for the file, and those of every
\* entry of sessionStateUsage, are natural numbers.
EstimatesNonNegative ==
    /\ sessionInputTokens \in Nat
    /\ sessionOutputTokens \in Nat
    /\ sessionInputTokensFromMessages \in Nat
    /\ \A k \in 1..Len(fileEstimates) :
          fileEstimates[k].inputTokens \in Nat /\ fileEstimates[k].outputTokens \in Nat
    /\ \A k \in 1..Len(sessionStateUsage) :
          /\ sessionStateUsage[k].inputTokens \in Nat
          /\ sessionStateUsage[k].outputTokens \in Nat

\* a file with a session.start, a session.truncation of -4 tokens and a
\* user.message was read: the truncation sum is negative and the estimate is
\* the one of the message
NonNegativeWitness ==
    /\ FileEstimated
    /\ sessionInputTokensFromTruncationSum < 0
    /\ sessionInputTokensFromMessages > 0
    /\ sessionInputTokens = sessionInputTokensFromMessages
    /\ Len(fileEstimates) > 0
    /\ fileEstimates[Len(fileEstimates)].file = filePath
    /\ fileEstimates[Len(fileEstimates)].inputTokens = sessionInputTokensFromMessages

(***************************************************************************)
(* Conservation between buckets and totals                                 *)
(***************************************************************************)
\* the usage records the second loop adds: no session-state entry, a timestamp
CountedStandalone ==
    SelectSeq(usageBySession,
              LAMBDA u : ~HasId(sessionStateUsage, u.id) /\ u.timestamp # NoDate)

\* the totals as the inputs alone give them, whatever the time unit
TotalsOfInputs ==
    [sessions |-> Len(sessionStateUsage) + Len(CountedStandalone),
     input    |-> LawTotal(sessionStateUsage, "input")
                      + SumField(CountedStandalone, "inputTokens"),
     output   |-> LawTotal(sessionStateUsage, "output")
                      + SumField(CountedStandalone, "outputTokens")]

\* C32 (conservation between buckets and totals): after reconciliation and
\* gap filling and before the limit is applied, the sessions, input tokens
\* and output tokens summed over all buckets are totalSessions,
\* totalInputTokens and totalOutputTokens, in every time unit, ranked or not;
\* the three totals are what the inputs give without regard to the time unit.
BucketConservation ==
    pc \in {"sort", "limit"} =>
        /\ SumField(aggStats, "sessions") = totalSessions
        /\ SumField(aggStats, "input") = totalInputTokens
        /\ SumField(aggStats, "output") = totalOutputTokens
        /\ totalSessions = TotalsOfInputs.sessions
        /\ totalInputTokens = TotalsOfInputs.input
        /\ totalOutputTokens = TotalsOfInputs.output

\* gap filling is over: two sessions, one from the session-state files and
\* one from the usage logs alone, lie in two buckets with empty ones between
BucketConservationWitness ==
    /\ pc = "sort"
    /\ ~rankByCost
    /\ totalSessions = 2
    /\ Len(sessionStateUsage) = 1
    /\ Len(CountedStandalone) = 1
    /\ Len(aggStats) > 2
    /\ \E k \in 1..Len(aggStats) : aggStats[k].sessions = 0

(***************************************************************************)
(* Every session is counted once                                           *)
(***************************************************************************)
\* the ids of the usage logs that have a timestamp and no session-state entry
AuthoritativeOnlyIds ==
    { usageBySession[k].id : k \in { j \in 1..Len(usageBySession) :
          /\ ~HasId(sessionStateUsage, usageBySession[j].id)
          /\ usageBySession[j].timestamp # NoDate } }

\* the buckets a call of addSessionUsage has counted its session in
BucketsOf(call) == { b \in 1..Len(aggStats) : aggStats[b].key = reconciled[call].key }

\* C33 (each session is counted exactly once): when both loops are done,
\* every id of the session-state results and every authoritative-only id with
\* a timestamp has exactly one addSessionUsage call, which counts it in
\* exactly one bucket, no other id has a call, every bucket counts exactly
\* the calls of its key, and totalSessions is the number of session-state ids
\* plus the number of authoritative-only ids with a timestamp.
CountedOnce ==
    LoopsDone =>
        /\ \A id \in IdsOf(sessionStateUsage) \cup AuthoritativeOnlyIds :
              /\ Cardinality(CallsFor(id)) = 1
              /\ \A call \in CallsFor(id) : Cardinality(BucketsOf(call)) = 1
        /\ \A call \in 1..Len(reconciled) :
              reconciled[call].sessionId
                  \in IdsOf(sessionStateUsage) \cup AuthoritativeOnlyIds
        /\ \A b \in 1..Len(aggStats) :
              aggStats[b].sessions =
                  Cardinality({ call \in 1..Len(reconciled) :
                                    reconciled[call].key = aggStats[b].key })
        /\ totalSessions = Cardinality(IdsOf(sessionStateUsage))
                               + Cardinality(AuthoritativeOnlyIds)

\* both loops are done over a session that is in both results and a session
\* that is in the usage logs alone, each in a bucket of its own
CountedOnceWitness ==
    /\ pc = "gapfill"
    /\ totalSessions = 2
    /\ \E id \in IdsOf(sessionStateUsage) : HasId(usageBySession, id)
    /\ AuthoritativeOnlyIds # {}
    /\ Len(aggStats) = 2

(***************************************************************************)
(* Gap filling only adds empty buckets                                     *)
(***************************************************************************)
\* a step of the gap-filling phase: the buckets that exist stay as they are,
\* in their places; a bucket that is added is all zero and its key lies
\* between two populated keys; in rank mode nothing is added
GapFillAddsOnly ==
    pc \in {"gapfill", "gaploop"} =>
        /\ Len(aggStats') >= Len(aggStats)
        /\ \A k \in 1..Len(aggStats) : aggStats'[k] = aggStats[k]
        /\ \A k \in (Len(aggStats) + 1)..Len(aggStats') :
              /\ aggStats'[k] = EmptyBucket(aggStats'[k].key)
              /\ ~HasKey(aggStats, aggStats'[k].key)
              /\ \E lo \in PopulatedKeys : StrLess(lo, aggStats'[k].key)
              /\ \E hi \in PopulatedKeys : StrLess(aggStats'[k].key, hi)
        /\ rankByCost => aggStats' = aggStats

\* C34 (gap filling only adds empty buckets): gap filling changes neither the
\* sessions, input, output nor cost of a bucket a session was added to, and
\* every bucket it creates is all zero with a key between the earliest and
\* the latest populated key; in rank mode it adds nothing, so that every
\* bucket, and with it every reported key, has sessions >= 1.
GapFillOnlyAddsEmpty ==
    /\ [][GapFillAddsOnly]_vars
    /\ []((GapFillDone /\ rankByCost) =>
            /\ \A k \in 1..Len(aggStats) : aggStats[k].sessions >= 1
            /\ \A i \in 1..Len(sortedKeys) :
                  /\ HasKey(aggStats, sortedKeys[i])
                  /\ StatsOf(aggStats, sortedKeys[i]).sessions >= 1)

\* the loop is in month unit and has added a bucket of zeros after the two
\* populated buckets, and has more to add
GapFillOnlyAddsWitness ==
    /\ pc = "gaploop"
    /\ timeUnit = "month"
    /\ Cardinality(PopulatedKeys) = 2
    /\ Len(aggStats) = 3
    /\ aggStats[3] = EmptyBucket(currentKey)
    /\ StrLess(currentKey, maxKey)

(***************************************************************************)
(* Termination of the gap-fill loop                                        *)
(***************************************************************************)
\* analyzeFiles is one sequential function: once it is in the while loop, it
\* takes the loop's next step, an iteration or the exit
SpecFair ==
    /\ Spec
    /\ WF_vars(GapFillStep)
    /\ WF_vars(GapFillEnd)

\* an iteration of the while loop, with or without the break: the new key is
\* strictly greater than the one before, and the latest key stays
GapLoopAdvances ==
    (pc = "gaploop" /\ StrLess(currentKey, maxKey)) =>
        /\ StrLess(currentKey, currentKey')
        /\ maxKey' = maxKey
        /\ (pc' = "gaploop") = ~StrLess(maxKey, currentKey')

\* C35 (gap fill terminates): in every time unit and for every set of
\* populated keys, every iteration of the gap-fill loop produces a strictly
\* greater key, and the loop, once entered, is left for the sort.
GapFillTerminates ==
    /\ [][GapLoopAdvances]_vars
    /\ (pc = "gaploop" ~> pc = "sort")

\* the loop has run from the earliest to the latest key over three days, one
\* of them the first of the year, and the sort is next
GapFillTerminatesWitness ==
    /\ pc = "sort"
    /\ ~rankByCost
    /\ timeUnit = "day"
    /\ currentKey = maxKey
    /\ currentKey = "2025-01-02"
    /\ HasKey(aggStats, "2025-01-01")
    /\ Len(aggStats) >= 4

(***************************************************************************)
(* A discarded payload has no effect                                       *)
(***************************************************************************)
\* the session id the open buffer resolves to
PendingSessionId == ResolvedSessionId(PendingUsage, jsonBufferSessionId, fileSessionId)

\* the open buffer is dropped before the dedup: it is empty, does not parse,
\* has no numeric usage, or resolves to no UUID-shaped session id
PendingDiscarded ==
    \/ ~PendingUsage.found
    \/ Falsy(PendingSessionId)
    \/ ~UUID_PATTERN(PendingSessionId)

\* the open buffer is dropped by the dedup
PendingDuplicate ==
    /\ ~PendingDiscarded
    /\ ~Falsy(PendingUsage.responseId)
    /\ DedupeKey(PendingSessionId, PendingUsage.responseId)
           \in seenUsageBySessionAndResponse

\* the keys of the records that resolved to a session
KeysOfRecords ==
    { DedupeKey(usageRecords[k].sessionId, usageRecords[k].responseId) :
          k \in 1..Len(usageRecords) }

\* C36 (a discarded payload has no effect): the step that drops a finalized
\* buffer because it is empty, does not parse, lacks numeric usage or has no
\* UUID-shaped session id changes neither usageBySession nor the set of seen
\* (sessionId, responseId) pairs, and neither does the step that drops a
\* duplicate; the seen pairs are pairs of records that resolved, so that a
\* valid payload whose pair is not among them is counted, whatever was
\* dropped before.
DiscardedNoEffect ==
    /\ [][ (Finalizing /\ (PendingDiscarded \/ PendingDuplicate)) =>
               UNCHANGED << usageBySession, seenUsageBySessionAndResponse >> ]_vars
    /\ [][ (Finalizing /\ ~PendingDiscarded /\ ~PendingDuplicate) =>
               usageBySession' = AddUsageRecord(usageBySession, PendingSessionId,
                                                PendingUsage, jsonBufferTimestamp) ]_vars
    /\ [](seenUsageBySessionAndResponse \subseteq KeysOfRecords)

\* the payload with response id r1 had no session id in the process log and
\* was dropped there; the same payload was counted for the session of the
\* log file named after it
DiscardedWitness ==
    /\ pc = "state"
    /\ "/logs/process-1.log" \in DOMAIN logFileContents
    /\ logFileContents["/logs/process-1.log"] = LogContents[2]
    /\ Len(usageRecords) = 1
    /\ usageRecords[1].responseId = "r1"
    /\ usageRecords[1].file = "/logs/" \o SessionIdList[1] \o ".log"
    /\ Len(usageBySession) = 1
    /\ usageBySession[1].inputTokens = 100
    /\ seenUsageBySessionAndResponse = {DedupeKey(SessionIdList[1], "r1")}

(***************************************************************************)
(* Buffer discipline                                                       *)
(***************************************************************************)
\* the step reads a prefixed line whose payload begins with "{"
OpensBuffer ==
    /\ ReadsLogLine
    /\ LOG_PREFIX_PATTERN(line').matched
    /\ BeginsWithBrace(LOG_PREFIX_PATTERN(line').payload)

\* new Date(prefixMatch[1]) of the line, null if it is an Invalid Date
CapturedTimestamp(l) ==
    IF DateFromTimestamp(LOG_PREFIX_PATTERN(l).timestamp) = InvalidDate THEN NoDate
    ELSE DateFromTimestamp(LOG_PREFIX_PATTERN(l).timestamp)

\* C37 (buffer discipline): there is one buffer at most: a line that opens a
\* buffer leaves a buffer of its payload alone, the buffer open before having
\* been finalized by the same step; the captured session id and timestamp are
\* assigned when a buffer is opened (the session context and the time of the
\* opening line, either of which can be absent), stay as they are while it
\* is open and are null whenever no buffer is open; an open buffer stays open,
\* growing by the line read, until the one step that finalizes it, after which
\* it is gone; a buffer is opened by an opening line only; and outside the
\* reading of a file, at its end and at the start of the next, no buffer is
\* open.
BufferDiscipline ==
    /\ [](jsonBuffer = << >> =>
              jsonBufferSessionId = NULL /\ jsonBufferTimestamp = NoDate)
    /\ [](pc # "lines" => jsonBuffer = << >>)
    /\ [][ OpensBuffer =>
              /\ jsonBuffer' = << LOG_PREFIX_PATTERN(line').payload >>
              /\ jsonBufferSessionId' = currentSessionId'
              /\ jsonBufferTimestamp' = CapturedTimestamp(line') ]_vars
    /\ [][ (pc = "lines" /\ jsonBuffer # << >> /\ ~Finalizing) =>
              /\ jsonBuffer' = Append(jsonBuffer, line')
              /\ UNCHANGED << jsonBufferSessionId, jsonBufferTimestamp >> ]_vars
    /\ [][ (Finalizing /\ ~OpensBuffer) => jsonBuffer' = << >> ]_vars
    /\ [][ (jsonBuffer = << >> /\ ~OpensBuffer) => jsonBuffer' = << >> ]_vars
    /\ [][ OpensLogFile =>
              /\ jsonBuffer' = << >>
              /\ usageRecords' = usageRecords ]_vars

\* the second line of a file has finalized the buffer the first line opened,
\* which gave a record, and has opened none: no buffer is open and nothing is
\* captured
BufferDisciplineWitness ==
    /\ pc = "lines"
    /\ lineNo = 2
    /\ LOG_PREFIX_PATTERN(line).matched
    /\ jsonBuffer = << >>
    /\ jsonBufferSessionId = NULL
    /\ jsonBufferTimestamp = NoDate
    /\ Len(usageRecords) > 0
    /\ usageRecords[Len(usageRecords)].file = logFilePath
    /\ usageRecords[Len(usageRecords)].timestamp # NoDate

(***************************************************************************)
(* Repeated session.start records in one file                              *)
(***************************************************************************)
\* the last session.start record with a start timestamp among the lines
LastStart(events) ==
    events[CHOOSE i \in StartsIn(events) : \A j \in StartsIn(events) : j <= i]

\* the positions of the session.start records with a start timestamp that
\* carry a sessionId
ExplicitIdsIn(events) ==
    { i \in StartsIn(events) : ~Falsy(events[i].data.sessionId) }

\* the sessionId of the last of them, the id the path gives if there is none
LastExplicitId(path, events) ==
    IF ExplicitIdsIn(events) = {} THEN inferSessionIdFromSessionFile(path)
    ELSE events[CHOOSE i \in ExplicitIdsIn(events) :
                    \A j \in ExplicitIdsIn(events) : j <= i].data.sessionId

\* the tokens the texts of all records of the given types come to
RECURSIVE TextTokens(_, _, _)
TextTokens(events, types, n) ==
    IF n = 0 THEN 0
    ELSE TextTokens(events, types, n - 1)
         + (IF events[n].kind = "event" /\ events[n].type \in types
            THEN IF "user.message" \in types /\ ~Falsy(events[n].data.transformedContent)
                 THEN CeilOfQuarter(events[n].data.transformedContent)
                 ELSE CeilOfQuarter(events[n].data.content)
            ELSE 0)

\* the estimate of the whole file is the last one made, under the id
WholeFileAttributedTo(id) ==
    /\ Len(fileEstimates) > 0
    /\ fileEstimates[Len(fileEstimates)].file = filePath
    /\ fileEstimates[Len(fileEstimates)].id = id
    /\ fileEstimates[Len(fileEstimates)].inputTokens =
           (IF SumOf(TruncationCounts) > 0 THEN SumOf(TruncationCounts)
            ELSE TextTokens(eventsRead, {"user.message"}, Len(eventsRead)))
    /\ fileEstimates[Len(fileEstimates)].outputTokens =
           TextTokens(eventsRead, {"assistant.message", "assistant.reasoning"},
                      Len(eventsRead))
    /\ HasId(sessionStateUsage, id)

\* the file is read to its end and had two session.start records or more
\* with a start timestamp
RepeatedStarts == FileEstimated /\ Cardinality(StartsIn(eventsRead)) >= 2

\* C38 (repeated session.start within one file), as claimed: the file's date
\* and explicit sessionId are those of the last session.start record with a
\* start timestamp (a record without a sessionId leaving the file with the id
\* of its path), and if the date is one, the tokens of the whole file are
\* attributed to that id.
RepeatedStartAsClaimed ==
    RepeatedStarts =>
        /\ sessionDateObj = DateFromString(LastStart(eventsRead).data.startTime)
        /\ sessionId = (IF ~Falsy(LastStart(eventsRead).data.sessionId)
                        THEN LastStart(eventsRead).data.sessionId
                        ELSE inferSessionIdFromSessionFile(filePath))
        /\ sessionDateObj # InvalidDate => WholeFileAttributedTo(sessionId)

\* C38 (repeated session.start within one file), amended: the file's date is
\* that of the last session.start record with a start timestamp, its
\* sessionId is that of the last of these records that carries a sessionId
\* (the id of its path if none does), and if the date is one, the tokens of
\* all records of the file, those before the last session.start included, are
\* attributed to that id in one estimate.
RepeatedStartLastWins ==
    RepeatedStarts =>
        /\ sessionDateObj = DateFromString(LastStart(eventsRead).data.startTime)
        /\ sessionId = LastExplicitId(filePath, eventsRead)
        /\ sessionDateObj # InvalidDate =>
               WholeFileAttributedTo(LastExplicitId(filePath, eventsRead))

\* a file of a session.start record without sessionId, a message and a
\* session.start record with the sessionId of session 2 was read: the message
\* is counted for session 2, at the date of the last record
RepeatedStartWitness ==
    /\ RepeatedStarts
    /\ Len(eventsRead) = 3
    /\ eventsRead[1].type = "session.start"
    /\ Falsy(eventsRead[1].data.sessionId)
    /\ eventsRead[2].type = "assistant.message"
    /\ eventsRead[3].type = "session.start"
    /\ eventsRead[3].data.sessionId = SessionIdList[2]
    /\ sessionId = SessionIdList[2]
    /\ sessionDateObj = DateFromString(StartTimes[2])
    /\ fileEstimates[Len(fileEstimates)].id = SessionIdList[2]
    /\ fileEstimates[Len(fileEstimates)].outputTokens = 2

=============================================================================
